---- MODULE Spec2Model ----
(***************************************************************************)
(* hat-backup: the spawned-process blob backend (src/backend/cmd.rs) and   *)
(* the streaming FileReader of the virtual filesystem (src/vfs/fs.rs).     *)
(*                                                                         *)
(* The backend is modelled with caller threads, the two mutexes, the       *)
(* queue of running put helpers and the external blob store the helper     *)
(* commands act on.  The reader is modelled as the record of its fields    *)
(* and the chunk iterator it pulls from.                                   *)
(***************************************************************************)
EXTENDS Integers, Sequences, FiniteSets, TLC

VARIABLES
    blobs,        \* external store behind the helpers: hex key -> bytes / NoBlob
    read_cache,   \* CmdBackend.read_cache: name -> Result
    queue,        \* CmdBackend.queue: Seq of CmdPut
    qlock,        \* holder of the queue mutex, 0 when free
    poisoned,     \* the queue mutex was poisoned by a panic of its holder
    writes,       \* one record per store call: its context and what happened to it
    budget,       \* helper failures the environment may still inject, and their kinds
    pc,           \* per caller thread: position in the current call
    cur,          \* per caller thread: the current (or last completed) call
    last,         \* per caller thread: summary of the calls completed before cur
    rd,           \* the FileReader's fields
    chunks,       \* the chunks the reader's iterator was built over
    rlog,         \* the reads made on the reader so far, summarised
    hat,          \* what the repository holds: the snapshot list and the directory trees
    inodes,       \* Fuse.inodes: inode number -> File (a sequence, ino = position)
    parent,       \* Fuse.parent: inode number -> child inode numbers
    open_files,   \* Fuse.open_files: file handle -> FileReader
    opened,       \* the handles the adapter's open has replied with, in order
    pure          \* the last call of a function without state: name, argument, result

bvars == <<blobs, read_cache, queue, qlock, poisoned, writes, budget, pc, cur, last>>
rvars == <<rd, chunks, rlog>>
xvars == <<hat, inodes, parent, open_files, opened, pure>>
vars == <<blobs, read_cache, queue, qlock, poisoned, writes, budget, pc, cur, last,
          rd, chunks, rlog, hat, inodes, parent, open_files, opened, pure>>

(***************************************************************************)
(* Program constants and model bounds                                      *)
(***************************************************************************)
max_cache_size == 10
max_concurrent == 5

\* caller threads of the concurrent specification
NumThreads == 2
\* blob names used by the sequential caller
NumNames == 2
\* blob names used by the cache specification (more than max_cache_size)
NumCacheNames == 11
\* ciphertext bytes range over 1..MaxByte; ciphertexts have at most one byte
MaxByte == 1
\* store calls made in the sequential, the concurrent and the retry specification
MaxWritesSeq == 2
MaxWritesQueue == 4
MaxWritesSat == 6
MaxWritesRetry == 2
\* helper failures (spawn errors, nonzero exits, failed polls) injected per run
\* of the sequential, the concurrent and the retry specification
MaxFails == 1
MaxFailsQueue == 1
MaxFailsSat == 1
MaxFailsRetry == 2
\* store calls and helper failures of the restart specification
\* bytes a pipe takes before its writer has to wait for the reader
PipeCapacity == 1
MaxWritesFeed == 2
MaxFailsFeed == 1
MaxWritesBlock == 6
MaxFailsBlock == 2
MaxWritesRestart == 2
MaxFailsRestart == 2
\* the reader's iterator yields at most MaxChunks chunks of at most MaxChunkLen bytes
MaxChunks == 3
MaxChunkLen == 2
\* read(offset, size) is called with offset <= MaxOffset and size <= MaxSize
MaxOffset == 7
MaxSize == 7
\* snapshots in the repository the FUSE adapter is constructed over
MaxSnapshots == 3
\* open calls made on the adapter, and the offsets and sizes of its reads
MaxOpens == 3
MaxFuseOffset == 2
MaxFuseSize == 2
\* components of the paths given to ls
MaxPathLen == 4
\* bytes of a file name
MaxNameLen == 4
\* the stream written to a hash tree, its chunk size limit and its fan-out
MaxTreeBytes == 5
MaxChunkLimit == 2
MaxFanOut == 3

Threads == 1..NumThreads
NamesUpTo(k) == {<<b>> : b \in 0..(k - 1)}
Texts == {<<>>} \cup {<<b>> : b \in 1..MaxByte}

(***************************************************************************)
(* Values                                                                  *)
(***************************************************************************)
\* what the store holds under a key: nothing, or a blob (possibly of no bytes)
NoBlob == [has |-> FALSE, bytes |-> <<>>]
Blob(bytes) == [has |-> TRUE, bytes |-> bytes]

\* Result<Option<Vec<u8>>, String> and Result<(), String>, plus "pending"
Res(tag, val) == [tag |-> tag, val |-> val]
Pending == Res("pending", <<>>)
OkUnit == Res("ok", <<>>)
OkNone == Res("none", <<>>)
OkSome(bytes) == Res("some", bytes)
Err(what) == Res("err", what)

\* hex::encode: two lowercase hex digits per byte
HexDigits == <<"0", "1", "2", "3", "4", "5", "6", "7",
               "8", "9", "a", "b", "c", "d", "e", "f">>
RECURSIVE HexEncode(_)
HexEncode(bytes) ==
    IF bytes = <<>> THEN <<>>
    ELSE <<HexDigits[(Head(bytes) \div 16) + 1], HexDigits[(Head(bytes) % 16) + 1]>>
         \o HexEncode(Tail(bytes))

EmptyCache == [k \in {} |-> Pending]
NoCall == [op |-> "none", name |-> <<>>, text |-> <<>>, id |-> 0,
           res |-> Pending, ran |-> FALSE, pre |-> {}, helper |-> "none"]
NoLast == [k |-> "none", name |-> <<>>, val |-> <<>>, res |-> Pending]
\* `last` in the specifications that do not follow a caller's call sequence
Untracked == [k |-> "off", name |-> <<>>, val |-> <<>>, res |-> Pending]

(***************************************************************************)
(* The read cache (cmd.rs 130-172)                                         *)
(***************************************************************************)
\* guarded_cache_get: None on a miss, the cached result on a hit.  The cache
\* mutex is never poisoned (no panic can occur while it is held), so the
\* Err(e) arm of the lock is unreachable.
CacheHas(cache, name) == name \in DOMAIN cache

guarded_cache_get(cache, name) == cache[name]

guarded_cache_delete(cache, name) ==
    [k \in (DOMAIN cache) \ {name} |-> cache[k]]

\* variant: the capacity test is off by one
CacheFullOffByOne(cache) == Cardinality(DOMAIN cache) > max_cache_size

CacheFull(cache) == Cardinality(DOMAIN cache) >= max_cache_size

\* variant: a not-found result is not cached
guarded_cache_put_found_only(cache, name, result) ==
    IF result = OkNone THEN cache
    ELSE [k \in (DOMAIN cache) \cup {name} |-> IF k = name THEN result ELSE cache[k]]

guarded_cache_put(cache, name, result) ==
    LET c == IF CacheFull(cache) THEN EmptyCache ELSE cache
    IN  [k \in (DOMAIN c) \cup {name} |-> IF k = name THEN result ELSE c[k]]

(***************************************************************************)
(* The helper commands, as section 6 of the specification describes them   *)
(***************************************************************************)
\* hat-backup-get <hex>: the blob on stdout, nothing when there is none.
GetStdout(store, hex_key) ==
    IF store[hex_key].has THEN store[hex_key].bytes ELSE <<>>

\* CmdBackend::get: empty stdout is not-found.  `outcome` is what became of
\* the helper: "ok", "exit_fail" (nonzero exit or signal, nothing printed) or
\* "spawn_err" (Command::output returned Err).
GetResult(store, name, outcome) ==
    IF outcome = "spawn_err" THEN Err(<<>>)
    ELSE LET stdout == IF outcome = "ok" THEN GetStdout(store, HexEncode(name))
                       ELSE <<>>
         IN  IF stdout = <<>> THEN OkNone ELSE OkSome(stdout)

\* CmdBackend::delete after the cache entry is dropped: Ok(()) whenever the
\* helper could be run, whatever its exit status.
DeleteResult(outcome) ==
    IF outcome = "spawn_err" THEN Err(<<>>) ELSE OkUnit

\* hat-backup-delete <hex> removes the blob when it succeeds.
DeleteStore(store, hex_key, outcome) ==
    IF outcome = "ok" THEN [store EXCEPT ![hex_key] = NoBlob] ELSE store

(***************************************************************************)
(* The write queue (cmd.rs 36-118, 174-212)                                *)
(***************************************************************************)
CmdPutContext(name, text, id) ==
    [hex_key |-> HexEncode(name), text |-> text, done_callback |-> id]

\* CmdPut::new: a freshly started helper that owns the context.
CmdPut(ctx) == [child |-> "running", context |-> ctx]

\* start_child writes the whole text to the helper's standard input, a pipe:
\* write_all goes through without the helper only while the text fits the pipe.
Fits(text) == Len(text) <= PipeCapacity

\* variant: a write whose helper could not be started is queued for a restart
FailedStartQueued(q, ctx) == Append(q, [child |-> "fail", context |-> ctx])

\* queue.push(CmdPut::new(ctx)?): on Err the `?` returns before the push
FailedStart(q, ctx) == q

\* variant: the saturation test is off by one
SaturatedOffByOne(q) == Len(q) > max_concurrent

Saturated(q) == Len(q) >= max_concurrent

\* CmdPut::wait on a helper that has exited: the callback is called exactly
\* when the exit status is success.
\* variant: the callback is called whatever the exit status
WaitCallsDoneAlways(c) == c.child \in {"ok", "fail"}

WaitCallsDone(c) == c.child = "ok"

\* try_flush's first loop.  E holds the positions whose try_wait fails.
StillQueued(q, E, i) == q[i].child = "running" \/ i \in E

KeptOf(q, E) ==
    LET F[i \in 0..Len(q)] ==
            IF i = 0 THEN <<>>
            ELSE IF StillQueued(q, E, i) THEN Append(F[i - 1], q[i]) ELSE F[i - 1]
    IN  F[Len(q)]

FiredOf(q, E) ==
    {q[i].context.done_callback :
        i \in {j \in 1..Len(q) : ~StillQueued(q, E, j) /\ WaitCallsDone(q[j])}}

\* variant: failed writes are not restarted
RestartOfNone(q, E) == <<>>

RestartOf(q, E) ==
    LET F[i \in 0..Len(q)] ==
            IF i = 0 THEN <<>>
            ELSE IF ~StillQueued(q, E, i) /\ ~WaitCallsDone(q[i])
                 THEN Append(F[i - 1], q[i].context) ELSE F[i - 1]
    IN  F[Len(q)]

\* try_flush: k of the failed writes are restarted before a restart fails
\* (k = Len(RestartOf) when none fails).  A failed restart panics.
try_flush(q, E, k) ==
    LET restart == RestartOf(q, E)
    IN  [queue |-> KeptOf(q, E) \o [i \in 1..k |-> CmdPut(restart[i])],
         fired |-> FiredOf(q, E),
         started |-> {restart[i].done_callback : i \in 1..k},
         panic |-> k < Len(restart)]

\* The environment may make a helper fail in three ways: "spawn" (the command
\* cannot be started or fed), "exit" (it exits nonzero or is killed) and
\* "poll" (try_wait fails), while the budget lasts.
CanFail(kind) == budget.left > 0 /\ kind \in budget.kinds
Spend(n) == [budget EXCEPT !.left = @ - n]
Budget(n, kinds) == [left |-> n, kinds |-> kinds]
AllKinds == {"spawn", "exit", "poll"}

PollCost(q, c) ==
    Cardinality(c.E) + (IF c.k < Len(RestartOf(q, c.E)) THEN 1 ELSE 0)

\* the choices of E and k that the remaining failure budget allows
PollChoices(q) ==
    {c \in [E : SUBSET (1..Len(q)), k : 0..Len(q)] :
        /\ c.k <= Len(RestartOf(q, c.E))
        /\ c.E # {} => "poll" \in budget.kinds
        /\ c.k < Len(RestartOf(q, c.E)) => "spawn" \in budget.kinds
        /\ PollCost(q, c) <= budget.left}

Fire(ws, ids) ==
    [w \in DOMAIN ws |-> IF w \in ids THEN [ws[w] EXCEPT !.done = @ + 1] ELSE ws[w]]

Started(ws, ids) ==
    [w \in DOMAIN ws |-> IF w \in ids THEN [ws[w] EXCEPT !.starts = @ + 1] ELSE ws[w]]

Admitted(ws) == {w \in DOMAIN ws : ws[w].admitted}
DoneFired(ws) == {w \in DOMAIN ws : ws[w].done >= 1}

\* hat-backup-put <hex> stores its stdin under the key when it succeeds.
PutStore(store, ctx) == [store EXCEPT ![ctx.hex_key] = Blob(ctx.text)]

(***************************************************************************)
(* Bookkeeping of the caller's calls                                       *)
(***************************************************************************)
Call(op, name, text, id, pre) ==
    [op |-> op, name |-> name, text |-> text, id |-> id,
     res |-> Pending, ran |-> FALSE, pre |-> pre, helper |-> "none"]

\* What the calls completed so far amount to, once call c has completed
\* after summary l: a store, a store directly followed by a flush, a delete,
\* or a retrieve with its result.
Summary(l, c) ==
    IF l = Untracked THEN Untracked
    ELSE IF c.op = "store" /\ c.res = OkUnit
        THEN [k |-> "stored", name |-> c.name, val |-> c.text, res |-> c.res]
    ELSE IF c.op = "flush" /\ c.res = OkUnit /\ l.k = "stored"
        THEN [l EXCEPT !.k = "flushed"]
    ELSE IF c.op = "delete" /\ c.res = OkUnit
        THEN [k |-> "deleted", name |-> c.name, val |-> <<>>, res |-> c.res]
    ELSE IF c.op = "retrieve"
        THEN [k |-> "retrieved", name |-> c.name, val |-> <<>>, res |-> c.res]
    ELSE NoLast

Begin(t, c, at) ==
    /\ pc[t] = "idle"
    /\ last' = [last EXCEPT ![t] = Summary(last[t], cur[t])]
    /\ cur' = [cur EXCEPT ![t] = c]
    /\ pc' = [pc EXCEPT ![t] = at]

\* A completed call keeps its arguments only where call sequences are followed.
Completed(t, r) ==
    IF last[t] = Untracked
    THEN [NoCall EXCEPT !.op = cur[t].op, !.res = r]
    ELSE [cur[t] EXCEPT !.res = r]

Return(t, r) ==
    /\ cur' = [cur EXCEPT ![t] = Completed(t, r)]
    /\ pc' = [pc EXCEPT ![t] = "idle"]

Panic(t) ==
    /\ cur' = [cur EXCEPT ![t] = Completed(t, Res("panic", <<>>))]
    /\ pc' = [pc EXCEPT ![t] = "panicked"]

(***************************************************************************)
(* store (cmd.rs 216-228) and new_put (cmd.rs 174-185)                     *)
(***************************************************************************)
StoreCall(t, name, text, maxWrites) ==
    /\ Len(writes) < maxWrites
    /\ Begin(t, Call("store", name, text, Len(writes) + 1, {}), "new_put")
    /\ writes' = Append(writes, [context |-> CmdPutContext(name, text, Len(writes) + 1),
                                 admitted |-> FALSE, starts |-> 0,
                                 okExit |-> FALSE, done |-> 0])
    /\ UNCHANGED <<blobs, read_cache, queue, qlock, poisoned, budget, rvars, xvars>>

\* variant: the guard outlives new_put and the caller keeps the queue mutex
UnlockedNever(t) == t

\* the MutexGuard of new_put is dropped when new_put returns or unwinds: the
\* queue mutex has no owner
Unlocked(t) == 0

\* self.queue.lock().unwrap()
NewPutLock(t) ==
    /\ pc[t] = "new_put"
    /\ qlock = 0
    /\ IF poisoned
       THEN Panic(t) /\ UNCHANGED qlock
       ELSE /\ qlock' = t
            /\ pc' = [pc EXCEPT ![t] = "new_put_locked"]
            /\ UNCHANGED cur
    /\ UNCHANGED <<blobs, read_cache, queue, poisoned, writes, budget, last, rvars, xvars>>

\* One round of `while queue.len() >= max_concurrent { try_flush; sleep }`,
\* or, once the loop is left, `queue.push(CmdPut::new(ctx)?)` and the return.
NewPutStep(t) ==
    /\ pc[t] = "new_put_locked"
    /\ qlock = t
    /\ IF Saturated(queue)
       THEN \E c \in PollChoices(queue) :
              LET r == try_flush(queue, c.E, c.k)
              IN  /\ queue' = r.queue
                  /\ writes' = Started(Fire(writes, r.fired), r.started)
                  /\ budget' = Spend(PollCost(queue, c))
                  /\ poisoned' = r.panic
                  /\ IF r.panic
                     THEN Panic(t) /\ qlock' = Unlocked(t)
                     ELSE UNCHANGED <<pc, cur, qlock>>
       ELSE \E started \in BOOLEAN :
              /\ started \/ CanFail("spawn")
              /\ IF started /\ Fits(writes[cur[t].id].context.text)
                 THEN /\ queue' = Append(queue, CmdPut(writes[cur[t].id].context))
                      /\ writes' = [writes EXCEPT ![cur[t].id].admitted = TRUE,
                                                  ![cur[t].id].starts = 1]
                      /\ Return(t, OkUnit)
                      /\ qlock' = Unlocked(t)
                      /\ UNCHANGED budget
                 ELSE IF started
                 THEN /\ pc' = [pc EXCEPT ![t] = "start_child"]
                      /\ UNCHANGED <<queue, writes, budget, cur, qlock>>
                 ELSE /\ Return(t, Err(<<>>))
                      /\ budget' = Spend(1)
                      /\ qlock' = Unlocked(t)
                      /\ queue' = FailedStart(queue, writes[cur[t].id].context)
                      /\ UNCHANGED writes
              /\ UNCHANGED poisoned
    /\ UNCHANGED <<blobs, read_cache, last, rvars, xvars>>

\* The helper that caller t is feeding reads its input, so that write_all
\* completes and new_put pushes the write and returns; or it goes away without
\* reading and write_all fails.
HelperReads(t) ==
    /\ pc[t] = "start_child"
    /\ qlock = t
    /\ \E fed \in BOOLEAN :
          /\ fed \/ CanFail("spawn")
          /\ IF fed
             THEN /\ queue' = Append(queue, CmdPut(writes[cur[t].id].context))
                  /\ writes' = [writes EXCEPT ![cur[t].id].admitted = TRUE,
                                              ![cur[t].id].starts = 1]
                  /\ Return(t, OkUnit)
                  /\ UNCHANGED budget
             ELSE /\ Return(t, Err(<<>>))
                  /\ budget' = Spend(1)
                  /\ queue' = FailedStart(queue, writes[cur[t].id].context)
                  /\ UNCHANGED writes
    /\ qlock' = Unlocked(t)
    /\ UNCHANGED <<blobs, read_cache, poisoned, last, rvars, xvars>>

(***************************************************************************)
(* flush (cmd.rs 291-305)                                                  *)
(***************************************************************************)
\* variant: a flush also empties the read cache
FlushCallInvalidating(t) ==
    /\ Begin(t, Call("flush", <<>>, <<>>, 0, Admitted(writes)), "flush")
    /\ read_cache' = EmptyCache
    /\ UNCHANGED <<blobs, queue, qlock, poisoned, writes, budget, rvars, xvars>>

FlushCall(t) ==
    /\ Begin(t, Call("flush", <<>>, <<>>, 0, Admitted(writes)), "flush")
    /\ UNCHANGED <<blobs, read_cache, queue, qlock, poisoned, writes, budget, rvars, xvars>>

\* variant: flush gives up with one write outstanding
FlushBreaksEarly(q) == Len(q) <= 1

FlushBreaks(q) == q = <<>>

\* One round of the loop: lock, break on an empty queue, else try_flush.
FlushStep(t) ==
    /\ pc[t] = "flush"
    /\ qlock = 0
    /\ IF poisoned
       THEN Panic(t) /\ UNCHANGED <<queue, writes, budget, poisoned>>
       ELSE IF FlushBreaks(queue)
       THEN Return(t, OkUnit) /\ UNCHANGED <<queue, writes, budget, poisoned>>
       ELSE \E c \in PollChoices(queue) :
              LET r == try_flush(queue, c.E, c.k)
              IN  /\ queue' = r.queue
                  /\ writes' = Started(Fire(writes, r.fired), r.started)
                  /\ budget' = Spend(PollCost(queue, c))
                  /\ poisoned' = r.panic
                  /\ IF r.panic THEN Panic(t) ELSE UNCHANGED <<pc, cur>>
    /\ UNCHANGED <<blobs, read_cache, qlock, last, rvars, xvars>>

(***************************************************************************)
(* The put helper processes                                                *)
(***************************************************************************)
\* The helper at queue position i exits: with success after storing its
\* input, or with a nonzero status (or a signal) leaving the store alone.
ChildExit(i, success) ==
    /\ i \in 1..Len(queue)
    /\ queue[i].child = "running"
    /\ success \/ CanFail("exit")
    /\ IF success
       THEN /\ queue' = [queue EXCEPT ![i].child = "ok"]
            /\ blobs' = PutStore(blobs, queue[i].context)
            /\ writes' = [writes EXCEPT ![queue[i].context.done_callback].okExit = TRUE]
            /\ UNCHANGED budget
       ELSE /\ queue' = [queue EXCEPT ![i].child = "fail"]
            /\ budget' = Spend(1)
            /\ UNCHANGED <<blobs, writes>>
    /\ UNCHANGED <<read_cache, qlock, poisoned, pc, cur, last, rvars, xvars>>

(***************************************************************************)
(* retrieve (cmd.rs 230-242)                                               *)
(***************************************************************************)
RetrieveCall(t, name) ==
    /\ Begin(t, Call("retrieve", name, <<>>, 0, {}), "cache_get")
    /\ UNCHANGED <<blobs, read_cache, queue, qlock, poisoned, writes, budget, rvars, xvars>>

RetrieveLookup(t) ==
    /\ pc[t] = "cache_get"
    /\ IF CacheHas(read_cache, cur[t].name)
       THEN Return(t, guarded_cache_get(read_cache, cur[t].name))
       ELSE pc' = [pc EXCEPT ![t] = "get"] /\ UNCHANGED cur
    /\ UNCHANGED <<blobs, read_cache, queue, qlock, poisoned, writes, budget, last, rvars, xvars>>

RetrieveGet(t) ==
    /\ pc[t] = "get"
    /\ \E outcome \in {"ok", "exit_fail", "spawn_err"} :
         /\ outcome = "ok" \/ CanFail(IF outcome = "exit_fail" THEN "exit" ELSE "spawn")
         /\ budget' = IF outcome = "ok" THEN budget ELSE Spend(1)
         /\ cur' = [cur EXCEPT ![t].res = GetResult(blobs, cur[t].name, outcome),
                               ![t].ran = TRUE,
                               ![t].helper = outcome]
    /\ pc' = [pc EXCEPT ![t] = "cache_put"]
    /\ UNCHANGED <<blobs, read_cache, queue, qlock, poisoned, writes, last, rvars, xvars>>

RetrievePut(t) ==
    /\ pc[t] = "cache_put"
    /\ read_cache' = guarded_cache_put(read_cache, cur[t].name, cur[t].res)
    /\ cur' = [cur EXCEPT ![t] = [Completed(t, cur[t].res) EXCEPT !.pre = DOMAIN read_cache]]
    /\ pc' = [pc EXCEPT ![t] = "idle"]
    /\ UNCHANGED <<blobs, queue, qlock, poisoned, writes, budget, last, rvars, xvars>>

(***************************************************************************)
(* delete (cmd.rs 244-259)                                                 *)
(***************************************************************************)
DeleteCall(t, name) ==
    /\ Begin(t, Call("delete", name, <<>>, 0, {}), "cache_delete")
    /\ UNCHANGED <<blobs, read_cache, queue, qlock, poisoned, writes, budget, rvars, xvars>>

DeleteInvalidate(t) ==
    /\ pc[t] = "cache_delete"
    /\ read_cache' = guarded_cache_delete(read_cache, cur[t].name)
    /\ pc' = [pc EXCEPT ![t] = "delete_cmd"]
    /\ UNCHANGED <<blobs, queue, qlock, poisoned, writes, budget, cur, last, rvars, xvars>>

DeleteCmd(t) ==
    /\ pc[t] = "delete_cmd"
    /\ \E outcome \in {"ok", "exit_fail", "spawn_err"} :
         /\ outcome = "ok" \/ CanFail(IF outcome = "exit_fail" THEN "exit" ELSE "spawn")
         /\ budget' = IF outcome = "ok" THEN budget ELSE Spend(1)
         /\ blobs' = DeleteStore(blobs, HexEncode(cur[t].name), outcome)
         /\ cur' = [cur EXCEPT ![t] = [Completed(t, DeleteResult(outcome))
                                          EXCEPT !.helper = outcome]]
         /\ pc' = [pc EXCEPT ![t] = "idle"]
    /\ UNCHANGED <<read_cache, queue, qlock, poisoned, writes, last, rvars, xvars>>

(***************************************************************************)
(* list (cmd.rs 261-289)                                                   *)
(***************************************************************************)
HexValue(d) == CHOOSE i \in 0..15 : HexDigits[i + 1] = d

\* Vec::from_hex accepts an even number of hex digits
HexOk(line) ==
    /\ Len(line) % 2 = 0
    /\ \A i \in 1..Len(line) : \E k \in 1..16 : HexDigits[k] = line[i]

RECURSIVE HexDecode(_)
HexDecode(line) ==
    IF line = <<>> THEN <<>>
    ELSE <<HexValue(line[1]) * 16 + HexValue(line[2])>>
         \o HexDecode(SubSeq(line, 3, Len(line)))

\* list: the helper prints the key of every stored blob on a line of its
\* own; the lines that are hex are decoded, the others ignored. The result is
\* kept as a set, the order being the helper's.
ListResult(store, outcome) ==
    IF outcome = "spawn_err" THEN Err(<<>>)
    ELSE Res("names", {HexDecode(k) : k \in {h \in DOMAIN store : store[h].has /\ HexOk(h)}})

ListCall(t) ==
    /\ Begin(t, Call("list", <<>>, <<>>, 0, {}), "list_cmd")
    /\ UNCHANGED <<blobs, read_cache, queue, qlock, poisoned, writes, budget, rvars, xvars>>

ListCmd(t) ==
    /\ pc[t] = "list_cmd"
    /\ \E outcome \in {"ok", "spawn_err"} :
         /\ outcome = "ok" \/ CanFail("spawn")
         /\ budget' = IF outcome = "ok" THEN budget ELSE Spend(1)
         /\ cur' = [cur EXCEPT ![t] = [Completed(t, ListResult(blobs, outcome))
                                          EXCEPT !.helper = outcome]]
         /\ pc' = [pc EXCEPT ![t] = "idle"]
    /\ UNCHANGED <<blobs, read_cache, queue, qlock, poisoned, writes, last, rvars, xvars>>

(***************************************************************************)
(* FileReader (vfs/fs.rs 13-91)                                            *)
(***************************************************************************)
Absent == Res("absent", <<>>)
Present(bytes) == Res("some", bytes)
Panicked == Res("panic", <<>>)

\* FileReader::new_from_iter: rest is the iterator (the chunks not yet pulled),
\* or None.
new_from_iter(hasIter, items) ==
    [rest |-> [some |-> hasIter, items |-> items],
     eof |-> ~hasIter, offset |-> 0, buf |-> <<>>]

\* variant: the buffer that is given up is not counted into offset
next_uncounted(st) ==
    IF st.rest.some /\ st.rest.items # <<>>
    THEN [st EXCEPT !.buf = Head(st.rest.items),
                    !.rest.items = Tail(st.rest.items)]
    ELSE [st EXCEPT !.buf = <<>>, !.eof = TRUE]

\* next: the buffer is counted into offset and replaced by the iterator's
\* next chunk; without one (or without an iterator) the reader is at eof
next(st) ==
    IF st.rest.some /\ st.rest.items # <<>>
    THEN [st EXCEPT !.offset = st.offset + Len(st.buf),
                    !.buf = Head(st.rest.items),
                    !.rest.items = Tail(st.rest.items)]
    ELSE [st EXCEPT !.offset = IF st.rest.some THEN st.offset + Len(st.buf)
                               ELSE st.offset,
                    !.buf = <<>>,
                    !.eof = TRUE]

\* variant: the loop stops when the buffer ends exactly at the offset
AdvanceMoreStrict(st, offset) ==
    st.offset + Len(st.buf) < offset \/ st.buf = <<>>

\* variant: a buffer that holds anything is kept
AdvanceMoreLazy(st, offset) == st.buf = <<>>

\* the condition of advance's while loop
AdvanceMore(st, offset) ==
    st.offset + Len(st.buf) <= offset \/ st.buf = <<>>

RECURSIVE advance(_, _)
advance(st, offset) ==
    IF AdvanceMore(st, offset)
    THEN LET s == next(st) IN IF s.eof THEN s ELSE advance(s, offset)
    ELSE st

\* from: the two assertions, then &buf[offset - self.offset ..]
FromOk(st, offset) ==
    st.offset <= offset /\ offset - st.offset <= Len(st.buf)

from(st, offset) ==
    SubSeq(st.buf, offset - st.offset + 1, Len(st.buf))

\* take: &from(offset)[..size]; the slice panics when size is beyond the end
TakeOk(st, offset, size) == size <= Len(from(st, offset))

take(st, offset, size) == SubSeq(from(st, offset), 1, size)

RECURSIVE read(_, _, _)
read(st, offset, size) ==
    LET s == advance(st, offset)
    IN  IF s.eof THEN [st |-> s, out |-> Absent]
        ELSE IF ~FromOk(s, offset) THEN [st |-> s, out |-> Panicked]
        ELSE IF from(s, offset) = <<>> THEN [st |-> s, out |-> Absent]
        ELSE LET avail == Len(from(s, offset))
             IN  IF size <= avail
                 THEN [st |-> s,
                       out |-> IF TakeOk(s, offset, size)
                               THEN Present(take(s, offset, size)) ELSE Panicked]
                 ELSE IF ~TakeOk(s, offset, avail) THEN [st |-> s, out |-> Panicked]
                 ELSE LET more == read(s, offset + avail, size - avail)
                      IN  [st |-> more.st,
                           out |-> IF more.out = Panicked THEN Panicked
                                   ELSE IF more.out = Absent
                                        THEN Present(take(s, offset, avail))
                                   ELSE Present(take(s, offset, avail) \o more.out.val)]

\* The chunks an iterator yields: chunk i has lens[i] bytes, and the bytes of
\* the file are numbered 1, 2, 3, ... so that every position is recognisable.
RECURSIVE SumLen(_)
SumLen(lens) == IF lens = <<>> THEN 0 ELSE Head(lens) + SumLen(Tail(lens))

ChunksOf(lens) ==
    [i \in 1..Len(lens) |->
        [j \in 1..lens[i] |-> SumLen(SubSeq(lens, 1, i - 1)) + j]]

ChunkLens == UNION {[1..n -> 0..MaxChunkLen] : n \in 0..MaxChunks}

RECURSIVE Concat(_)
Concat(cs) == IF cs = <<>> THEN <<>> ELSE Head(cs) \o Concat(Tail(cs))

Min(a, b) == IF a <= b THEN a ELSE b

\* R[from .. to) of a sequence, with 0-based bounds as in the source
Slice(R, lo, hi) == SubSeq(R, lo + 1, hi)

NoReads == [n |-> 0, offset |-> 0, size |-> 0, out |-> Absent,
            mono |-> TRUE, seq |-> TRUE]

\* One call of read(offset, size) on the reader.
Read(offset, size) ==
    /\ rlog.out # Panicked
    /\ LET r == read(rd, offset, size)
       IN  /\ rd' = r.st
           /\ rlog' = [n |-> Min(rlog.n + 1, 2),
                       offset |-> offset, size |-> size, out |-> r.out,
                       mono |-> rlog.mono /\ (rlog.n = 0 \/ offset >= rlog.offset),
                       seq |-> rlog.seq /\ (rlog.n = 0
                                            \/ offset >= rlog.offset + rlog.size)]
    /\ UNCHANGED <<chunks, bvars, xvars>>

(***************************************************************************)
(* The repository as the virtual filesystem sees it                        *)
(***************************************************************************)
\* A HashRef is a positive number; SnapshotStatus.hash_ref is None (NoRef),
\* bytes that HashRef::from_bytes rejects (BadRef), or the bytes of a HashRef.
NoRef == 0
BadRef == -1

SnapshotStatus(family, id, ref) ==
    [family_name |-> family, snapshot_id |-> id, hash_ref |-> ref]

\* walker::Content
Data(ref) == [kind |-> "data", ref |-> ref]
Dir(ref) == [kind |-> "dir", ref |-> ref]
Link(path) == [kind |-> "link", ref |-> path]

Entry(name, content) == [name |-> name, content |-> content]

\* a repository without snapshots, and no call made yet
NoHat == [snapshots |-> <<>>, dirs |-> <<>>]
NoPure == [fn |-> "none", arg |-> <<>>, out |-> <<>>]

\* hat.list_snapshots() and Family::fetch_dir_data(hash_ref, backend)
list_snapshots(h) == h.snapshots
fetch_dir_data(h, ref) == h.dirs[ref]

\* The directory trees of the repositories used: every snapshot root is
\* directory 1, which holds a file, a directory and a symbolic link.
TreeDirs ==
    (1 :> <<Entry("d", Dir(2)), Entry("f", Data(10)), Entry("l", Link("f"))>>)
    @@ (2 :> <<Entry("g", Data(11))>>)

\* the chunks of the files of these trees
TreeFiles == (10 :> <<<<1, 2>>, <<3>>>>) @@ (11 :> <<>>)

(***************************************************************************)
(* The hash tree: write path and leaf iterator                             *)
(***************************************************************************)
\* A HashRef names its content, so it is modelled by the content it
\* addresses: a leaf by its chunk, an inner node by its child HashRefs.
Leaf(chunk) == [height |-> 0, data |-> chunk, refs |-> <<>>]
Node(height, refs) == [height |-> height, data |-> <<>>, refs |-> refs]

\* Chunking: every way to cut a non-empty stream into chunks of 1..L bytes
RECURSIVE Splits(_, _)
Splits(B, L) ==
    IF B = <<>> THEN {<<>>}
    ELSE UNION {{<<SubSeq(B, 1, k)>> \o rest :
                    rest \in Splits(SubSeq(B, k + 1, Len(B)), L)} :
                k \in 1..(IF L < Len(B) THEN L ELSE Len(B))}

\* an empty stream has no chunk, or one empty chunk
Chunkings(B, L) == IF B = <<>> THEN {<<>>, <<<<>>>>} ELSE Splits(B, L)

\* variant: a HashRef is put in front of the pending ones
BufferedFront(buffer, ref) == <<ref>> \o buffer

\* a HashRef is emitted into a pending buffer
Buffered(buffer, ref) == Append(buffer, ref)

\* levels[h + 1] is the pending buffer of height h
BufferAt(levels, h) == IF h + 1 <= Len(levels) THEN levels[h + 1] ELSE <<>>

SetBuffer(levels, h, buffer) ==
    [i \in 1..(IF h + 1 > Len(levels) THEN h + 1 ELSE Len(levels)) |->
        IF i = h + 1 THEN buffer ELSE BufferAt(levels, i - 1)]

\* Emit ref into the buffer of height h; a buffer that reaches the fan-out
\* F becomes a node of height h + 1, emitted into the next buffer.
RECURSIVE Emit(_, _, _, _)
Emit(levels, h, ref, F) ==
    LET buffer == Buffered(BufferAt(levels, h), ref)
    IN  IF Len(buffer) >= F
            THEN Emit(SetBuffer(levels, h, <<>>), h + 1, Node(h + 1, buffer), F)
        ELSE SetBuffer(levels, h, buffer)

\* Leaf production for each chunk of the stream in turn
RECURSIVE EmitLeaves(_, _, _)
EmitLeaves(levels, cs, F) ==
    IF cs = <<>> THEN levels
    ELSE EmitLeaves(Emit(levels, 0, Leaf(Head(cs)), F), Tail(cs), F)

\* Stream end: each height in turn is flushed upward, until one HashRef is
\* left in the topmost buffer. A tree nothing was emitted into is flushed to
\* a node without children.
RECURSIVE FlushUpward(_, _, _)
FlushUpward(levels, h, F) ==
    LET buffer == BufferAt(levels, h)
    IN  IF levels = <<>> THEN <<<<>>, <<Node(1, <<>>)>>>>
        ELSE IF h + 1 >= Len(levels) /\ Len(buffer) = 1 THEN levels
        ELSE IF buffer = <<>> THEN FlushUpward(levels, h + 1, F)
        ELSE FlushUpward(Emit(SetBuffer(levels, h, <<>>), h + 1,
                              Node(h + 1, buffer), F), h + 1, F)

\* the HashRefs left in the buffers, lowest height first
RECURSIVE Surviving(_)
Surviving(levels) ==
    IF levels = <<>> THEN <<>> ELSE Head(levels) \o Surviving(Tail(levels))

\* LeafIterator: the chunks yielded from a stack of cursors (node, child_index)
RECURSIVE LeafIterator(_)
LeafIterator(stack) ==
    IF stack = <<>> THEN <<>>
    ELSE LET top == stack[Len(stack)]
             below == SubSeq(stack, 1, Len(stack) - 1)
         IN  IF top.node.height = 0 THEN <<top.node.data>> \o LeafIterator(below)
             ELSE IF top.child_index > Len(top.node.refs) THEN LeafIterator(below)
             ELSE LeafIterator(below
                      \o <<[node |-> top.node, child_index |-> top.child_index + 1],
                           [node |-> top.node.refs[top.child_index], child_index |-> 1]>>)

\* Write the stream the behaviour started with, then iterate every HashRef
\* the writer is left with.
HashTreeRoundTrip ==
    /\ pure.fn = "none"
    /\ LET levels == FlushUpward(EmitLeaves(<<>>, pure.arg.chunks, pure.arg.F), 0, pure.arg.F)
           roots == Surviving(levels)
       IN  pure' = [fn |-> "hash_tree", arg |-> pure.arg,
                    out |-> [roots |-> roots,
                             leaves |-> [i \in 1..Len(roots) |->
                                 LeafIterator(<<[node |-> roots[i], child_index |-> 1]>>)]]]
    /\ UNCHANGED <<hat, inodes, parent, open_files, opened, bvars, rvars>>

(***************************************************************************)
(* models::FileName and its conversions (models/mod.rs 135-184)            *)
(***************************************************************************)
\* A String is the sequence of its bytes, which is well-formed UTF-8.
Utf8(utf8) == [variant |-> "Utf8", raw |-> <<>>, utf8 |-> utf8]
RawAndLossyUtf8(raw, utf8) == [variant |-> "RawAndLossyUtf8", raw |-> raw, utf8 |-> utf8]

\* The number of bytes the lead byte b announces, 0 for a byte that cannot
\* start a character (continuation bytes, C0, C1, F5..FF).
Utf8Width(b) ==
    IF b < 128 THEN 1
    ELSE IF b >= 194 /\ b <= 223 THEN 2
    ELSE IF b >= 224 /\ b <= 239 THEN 3
    ELSE IF b >= 240 /\ b <= 244 THEN 4
    ELSE 0

\* The range the second byte must lie in after the lead byte b.
SecondLo(b) == IF b = 224 THEN 160 ELSE IF b = 240 THEN 144 ELSE 128
SecondHi(b) == IF b = 237 THEN 159 ELSE IF b = 244 THEN 143 ELSE 191

\* byte k (2..4) of the character starting at v[i] is what the lead allows
ContinuesAt(v, i, k) ==
    /\ i + k - 1 <= Len(v)
    /\ IF k = 2 THEN v[i + 1] >= SecondLo(v[i]) /\ v[i + 1] <= SecondHi(v[i])
       ELSE v[i + k - 1] >= 128 /\ v[i + k - 1] <= 191

\* the bytes of the character starting at v[i] that are well-formed so far:
\* the lead and the continuation bytes up to the first one that is wrong
RECURSIVE GoodPrefix(_, _, _)
GoodPrefix(v, i, k) ==
    IF k < Utf8Width(v[i]) /\ ContinuesAt(v, i, k + 1) THEN GoodPrefix(v, i, k + 1)
    ELSE k

\* core::str::from_utf8 validation, run from position i
RECURSIVE ValidFrom(_, _)
ValidFrom(v, i) ==
    IF i > Len(v) THEN TRUE
    ELSE LET w == Utf8Width(v[i])
         IN  /\ w > 0
             /\ GoodPrefix(v, i, 1) = w
             /\ ValidFrom(v, i + w)

\* String::from_utf8(v).is_ok()
from_utf8_ok(v) == ValidFrom(v, 1)

\* U+FFFD REPLACEMENT CHARACTER
Replacement == <<239, 191, 189>>

\* String::from_utf8_lossy: every maximal ill-formed part becomes U+FFFD
RECURSIVE LossyFrom(_, _)
LossyFrom(v, i) ==
    IF i > Len(v) THEN <<>>
    ELSE LET w == Utf8Width(v[i])
             g == IF w = 0 THEN 1 ELSE GoodPrefix(v, i, 1)
         IN  IF w > 0 /\ g = w
                 THEN SubSeq(v, i, i + w - 1) \o LossyFrom(v, i + w)
             ELSE Replacement \o LossyFrom(v, i + g)

from_utf8_lossy(v) == LossyFrom(v, 1)

\* impl From<Vec<u8>> for FileName
FileNameFrom(v) ==
    IF from_utf8_ok(v) THEN Utf8(v)
    ELSE RawAndLossyUtf8(v, from_utf8_lossy(v))

\* variant: the raw variant gives back its lossy text
FileNameIntoLossy(name) == name.utf8

\* impl Into<Vec<u8>> for FileName
FileNameInto(name) ==
    IF name.variant = "Utf8" THEN name.utf8 ELSE name.raw

\* FileName::from(v) followed by into() on the result, v being the argument
\* the behaviour started with.
FileNameRoundTrip ==
    /\ pure.fn = "none"
    /\ pure' = [fn |-> "filename", arg |-> pure.arg,
                out |-> [name |-> FileNameFrom(pure.arg),
                         bytes |-> FileNameInto(FileNameFrom(pure.arg))]]
    /\ UNCHANGED <<hat, inodes, parent, open_files, opened, bvars, rvars>>

(***************************************************************************)
(* Filesystem::ls (vfs/fs.rs 93-169)                                       *)
(***************************************************************************)
\* Result<Option<List>, HatError>
LsNone == [tag |-> "none", val |-> <<>>]
LsErr == [tag |-> "err", val |-> <<>>]
Root(snapshots) == [tag |-> "Root", val |-> snapshots]
Snapshots(snapshots) == [tag |-> "Snapshots", val |-> snapshots]
ListDir(listing) == [tag |-> "Dir", val |-> listing]

\* A path is the sequence of its components, each the string as_os_str()
\* gives; "/" is path::Component::RootDir and can only come first.
RootDir == "/"

\* snapshots.into_iter().filter(|s| s.family_name == f)
RECURSIVE FilterFamily(_, _)
FilterFamily(snaps, f) ==
    IF snaps = <<>> THEN <<>>
    ELSE (IF Head(snaps).family_name = f THEN <<Head(snaps)>> ELSE <<>>)
         \o FilterFamily(Tail(snaps), f)

\* Iterator::find: the position of the first element with the property, 0
\* when there is none
\* variant: no snapshot is ever found
FindSnapshotNever(snaps, n) == 0

FindSnapshot(snaps, n) ==
    LET hits == {i \in 1..Len(snaps) : ToString(snaps[i].snapshot_id) = n}
    IN  IF hits = {} THEN 0 ELSE CHOOSE i \in hits : \A j \in hits : i <= j

\* variant: the first entry is taken whatever its name
FindEntryFirst(listing, name) == IF listing = <<>> THEN 0 ELSE 1

FindEntry(listing, name) ==
    LET hits == {i \in 1..Len(listing) : listing[i].name = name}
    IN  IF hits = {} THEN 0 ELSE CHOOSE i \in hits : \A j \in hits : i <= j

\* ls_ref: the entries of a directory, or an error when it cannot be fetched
LsRefOk(h, ref) == ref \in DOMAIN h.dirs
ls_ref(h, ref) == fetch_dir_data(h, ref)

\* the arm of the loop taken for Content::Data and Content::Link
LsFileStops(content) == content.kind \in {"data", "link"}

\* variant: the listing is kept when a file is reached
FileListingWhole(listing, k) == listing

\* listing = vec![(entry, content)] in the Data | Link arm
FileListing(listing, k) == <<listing[k]>>

\* the loop of ls over (href_opt, components.next()); hasRef is href_opt.is_some()
RECURSIVE LsLoop(_, _, _, _)
LsLoop(h, hasRef, listing, comps) ==
    IF comps = <<>> THEN ListDir(listing)
    ELSE IF ~hasRef THEN LsNone
    ELSE LET k == FindEntry(listing, Head(comps))
         IN  IF k = 0 THEN LsNone
             ELSE IF LsFileStops(listing[k].content)
                  THEN LsLoop(h, FALSE, FileListing(listing, k), Tail(comps))
             ELSE IF ~LsRefOk(h, listing[k].content.ref) THEN LsErr
             ELSE LsLoop(h, TRUE, ls_ref(h, listing[k].content.ref), Tail(comps))

ls(h, path) ==
    IF path = <<>> \/ Head(path) = RootDir THEN Root(list_snapshots(h))
    ELSE LET snapshots == FilterFamily(list_snapshots(h), path[1])
         IN  IF Len(path) = 1 THEN Snapshots(snapshots)
             ELSE LET k == FindSnapshot(snapshots, path[2])
                  IN  IF k = 0 \/ snapshots[k].hash_ref = NoRef THEN LsNone
                      ELSE IF snapshots[k].hash_ref = BadRef THEN LsErr
                      ELSE IF ~LsRefOk(h, snapshots[k].hash_ref) THEN LsErr
                      ELSE LsLoop(h, TRUE, ls_ref(h, snapshots[k].hash_ref),
                                  SubSeq(path, 3, Len(path)))

\* The call ls(path) on a Filesystem over the repository, path being the
\* argument the behaviour started with.
Ls ==
    /\ pure.fn = "none"
    /\ pure' = [fn |-> "ls", arg |-> pure.arg, out |-> ls(hat, pure.arg)]
    /\ UNCHANGED <<hat, inodes, parent, open_files, opened, bvars, rvars>>

(***************************************************************************)
(* Directory write: snapshot_direct, commit, meta_commit, data_flush       *)
(***************************************************************************)
\* models::Owner and models::Permissions
OwnerNone == [tag |-> "None", user_id |-> 0, group_id |-> 0]
UserGroup(user_id, group_id) == [tag |-> "UserGroup", user_id |-> user_id, group_id |-> group_id]
PermissionsNone == [tag |-> "None", mode |-> 0]
Mode(mode) == [tag |-> "Mode", mode |-> mode]

\* models::FileInfo
FileInfo(name, created_ts, modified_ts, accessed_ts, byte_length, owner, permissions, snapshot_ts_utc) ==
    [name |-> name, created_ts |-> created_ts, modified_ts |-> modified_ts,
     accessed_ts |-> accessed_ts, byte_length |-> byte_length, owner |-> owner,
     permissions |-> permissions, snapshot_ts_utc |-> snapshot_ts_utc]

\* FileName::is_empty and FileName::utf8
is_empty(name) == IF name.variant = "Utf8" THEN name.utf8 = <<>> ELSE name.raw = <<>>
utf8(name) == name.utf8

\* The name of the family the fuzz targets open, and the id of its first snapshot
FamilyName == "familyname"
FirstSnapshot == 1

\* models::File as stored in a TreeList leaf: the entry's FileInfo with the
\* snapshot time assigned at write time, and its content
StoredFile(info, content, now) ==
    [info |-> [info EXCEPT !.snapshot_ts_utc = now], content |-> content]

\* the (Entry, Content) pair decoded from a stored file; its name for path
\* matching is the UTF-8 view of the FileName
DecodedEntry(file) ==
    [name |-> utf8(file.info.name), content |-> file.content, info |-> file.info]

\* The tree of a directory listing: one TreeList leaf holding the stored
\* files, aggregated like any other stream.
DirectoryTree(files, F) == Surviving(FlushUpward(EmitLeaves(<<>>, <<files>>, F), 0, F))[1]

\* fetch_dir_data on the tree: the entries of the leaves in order
DirectoryRead(root) ==
    LET files == Concat(LeafIterator(<<[node |-> root, child_index |-> 1]>>))
    IN  [i \in 1..Len(files) |-> DecodedEntry(files[i])]

\* snapshot_direct of the FileInfo the behaviour started with, as a file
\* placeholder in a fresh family, then commit, meta_commit and data_flush:
\* the family's first snapshot refers to the tree of the one-entry listing.
SnapshotCommit(now, F) ==
    /\ pure.fn = "none"
    /\ hat = NoHat
    /\ ~is_empty(pure.arg.name)
    /\ hat' = [snapshots |-> <<SnapshotStatus(FamilyName, FirstSnapshot, 1)>>,
               dirs |-> (1 :> DirectoryRead(DirectoryTree(
                                  <<StoredFile(pure.arg, Data(2), now)>>, F)))]
    /\ UNCHANGED <<pure, inodes, parent, open_files, opened, bvars, rvars>>

\* ls("familyname/1") on a Filesystem over the committed repository
LsSnapshot ==
    /\ pure.fn = "none"
    /\ hat # NoHat
    /\ pure' = [fn |-> "ls_dir", arg |-> pure.arg,
                out |-> ls(hat, <<FamilyName, ToString(FirstSnapshot)>>)]
    /\ UNCHANGED <<hat, inodes, parent, open_files, opened, bvars, rvars>>

(***************************************************************************)
(* The FUSE adapter (vfs/fuse.rs)                                          *)
(***************************************************************************)
ReservedFamily == "__hat__roots__"

Parent == [kind |-> "Parent", ref |-> NoRef]
ParentTop(ref) == [kind |-> "ParentTop", ref |-> ref]
FileTop(ref) == [kind |-> "FileTop", ref |-> ref]
SymbolicLink(path) == [kind |-> "SymbolicLink", ref |-> path]

\* File{name, file_type, attr, parent}; of attr the inode number and the kind
\* are kept, and parent is 0 for None.
File(name, file_type, kind, par) ==
    [name |-> name, file_type |-> file_type, attr |-> [ino |-> 0, kind |-> kind],
     parent |-> par]

\* variant: the number of the newest inode is handed out again
NextInoStuck(T) == IF T.inodes = <<>> THEN 1 ELSE Len(T.inodes)

\* file.attr.ino = self.inodes.len() as u64 + 1
NextIno(T) == Len(T.inodes) + 1

\* variant: the inode is inserted but not pushed on its parent's child list
add_file_unlisted(T, file) ==
    LET ino == NextIno(T)
    IN  [inodes |-> [k \in DOMAIN T.inodes \cup {ino} |->
                        IF k = ino THEN [file EXCEPT !.attr.ino = ino] ELSE T.inodes[k]],
         parent |-> T.parent]

\* add_file on the pair of tables T = [inodes, parent]; inodes.insert(ino,
\* file) replaces an entry already under ino
add_file(T, file) ==
    LET ino == NextIno(T)
        p == file.parent
    IN  [inodes |-> [k \in DOMAIN T.inodes \cup {ino} |->
                        IF k = ino THEN [file EXCEPT !.attr.ino = ino] ELSE T.inodes[k]],
         parent |-> IF p = 0 THEN T.parent
                    ELSE IF p \in DOMAIN T.parent
                         THEN [T.parent EXCEPT ![p] = Append(@, ino)]
                         ELSE T.parent @@ (p :> <<ino>>)]

\* variant: no family is skipped
FamilyHiddenNever(family_name) == FALSE

\* the test that makes populate_from_snapshot_list skip a family
FamilyHidden(family_name) == family_name = ReservedFamily

\* the snapshots of one family, in the order of the snapshot list
RECURSIVE SnapshotsOf(_, _)
SnapshotsOf(snaps, family) ==
    IF snaps = <<>> THEN <<>>
    ELSE (IF Head(snaps).family_name = family THEN <<Head(snaps)>> ELSE <<>>)
         \o SnapshotsOf(Tail(snaps), family)

\* the inner loop of populate_from_snapshot_list: one ParentTop directory per
\* snapshot whose hash_ref is present and parses
RECURSIVE AddSnapshots(_, _, _)
AddSnapshots(T, ss, family_ino) ==
    IF ss = <<>> THEN T
    ELSE LET si == Head(ss)
             T1 == IF si.hash_ref > 0
                   THEN add_file(T, File(ToString(si.snapshot_id),
                                         ParentTop(si.hash_ref), "Directory", family_ino))
                   ELSE T
         IN  AddSnapshots(T1, Tail(ss), family_ino)

\* the outer loop, over the families in the order the HashMap yields them
RECURSIVE AddFamilies(_, _, _, _)
AddFamilies(T, snaps, order, root_ino) ==
    IF order = <<>> THEN T
    ELSE LET family_name == Head(order)
             T1 == IF FamilyHidden(family_name) THEN T
                   ELSE LET T0 == add_file(T, File(family_name, Parent, "Directory", root_ino))
                        IN  AddSnapshots(T0, SnapshotsOf(snaps, family_name),
                                         Len(T0.inodes))
         IN  AddFamilies(T1, snaps, Tail(order), root_ino)

populate_from_snapshot_list(T, snaps, order) ==
    LET T0 == add_file(T, File("root", Parent, "Directory", 0))
    IN  AddFamilies(T0, snaps, order, Len(T0.inodes))

\* the family names of a snapshot list and the orders a HashMap over them
\* may be iterated in
FamiliesOf(snaps) == {snaps[i].family_name : i \in 1..Len(snaps)}

Orders(S) ==
    {o \in [1..Cardinality(S) -> S] : \A i, j \in 1..Cardinality(S) : o[i] = o[j] => i = j}

\* fetch_dir: one inode per entry of the directory behind hash_ref
RECURSIVE AddEntries(_, _, _)
AddEntries(T, entries, par) ==
    IF entries = <<>> THEN T
    ELSE LET e == Head(entries)
             file == IF e.content.kind = "data"
                         THEN File(e.name, FileTop(e.content.ref), "RegularFile", par)
                     ELSE IF e.content.kind = "dir"
                         THEN File(e.name, ParentTop(e.content.ref), "Directory", par)
                     ELSE File(e.name, SymbolicLink(e.content.ref), "Symlink", par)
         IN  AddEntries(add_file(T, file), Tail(entries), par)

fetch_dir(T, par, hash_ref) == AddEntries(T, fetch_dir_data(hat, hash_ref), par)

\* What a request handler does with its reply object: one of the reply
\* calls, nothing at all (the reply is dropped unanswered), or a panic.
ReplyEntry(attr) == Res("entry", attr)
ReplyAttr(attr) == Res("attr", attr)
ReplyData(bytes) == Res("data", bytes)
ReplyOpened(fh) == Res("opened", fh)
ReplyDirectory(entries) == Res("dir", entries)
ReplyError(errno) == Res("error", errno)
NoReply == Res("noreply", <<>>)

\* the requests of fuse::Filesystem that are handled
FuseRequests == {"lookup", "getattr", "readlink", "open", "fuse_read", "readdir"}

\* a handler has panicked: the adapter's thread is gone
Crashed == pure.fn \in FuseRequests /\ pure.out = Panicked

\* the test of childs that makes it call fetch_dir
WantsFetch(T, ino) ==
    /\ ino \in DOMAIN T.inodes
    /\ T.inodes[ino].file_type.kind = "ParentTop"
    /\ ino \notin DOMAIN T.parent

\* childs(parent): the tables afterwards, the child inodes returned, whether
\* fetch_dir ran, and whether its unwrap() panicked
childs(T, ino) ==
    LET fetched == WantsFetch(T, ino)
        ok == ~fetched \/ LsRefOk(hat, T.inodes[ino].file_type.ref)
        T1 == IF fetched /\ ok THEN fetch_dir(T, ino, T.inodes[ino].file_type.ref) ELSE T
    IN  [T |-> T1, ok |-> ok, fetched |-> fetched,
         inos |-> IF ino \in DOMAIN T1.parent THEN T1.parent[ino] ELSE <<>>]

\* childs, as lookup and readdir call it: the children of a ParentTop are
\* fetched on the first call.
Childs(ino) ==
    /\ ~Crashed
    /\ ino \in 1..Len(inodes)
    /\ LET c == childs([inodes |-> inodes, parent |-> parent], ino)
       IN  c.ok /\ inodes' = c.T.inodes /\ parent' = c.T.parent
    /\ UNCHANGED <<hat, open_files, opened, pure, bvars, rvars>>

\* A request made to the adapter and what the handler did with it; aux is
\* whether fetch_dir ran (lookup, readdir) or what the reader gave (read).
Request(fn, arg, out, aux) == [fn |-> fn, arg |-> arg, out |-> out, aux |-> aux]

\* lookup: the first child of parent with the name is replied
FirstNamed(T, inos, name) ==
    LET hits == {k \in 1..Len(inos) : T.inodes[inos[k]].name = name}
    IN  IF hits = {} THEN 0 ELSE inos[CHOOSE k \in hits : \A j \in hits : k <= j]

Lookup(par, name) ==
    /\ ~Crashed
    /\ LET c == childs([inodes |-> inodes, parent |-> parent], par)
           child == IF c.ok THEN FirstNamed(c.T, c.inos, name) ELSE 0
       IN  /\ inodes' = c.T.inodes
           /\ parent' = c.T.parent
           /\ pure' = Request("lookup", <<par, name>>,
                              IF ~c.ok THEN Panicked
                              ELSE IF child = 0 THEN NoReply
                              ELSE ReplyEntry(c.T.inodes[child].attr),
                              c.fetched)
    /\ UNCHANGED <<hat, open_files, opened, bvars, rvars>>

Getattr(ino) ==
    /\ ~Crashed
    /\ pure' = Request("getattr", <<ino>>,
                       IF ino \in DOMAIN inodes THEN ReplyAttr(inodes[ino].attr) ELSE NoReply,
                       FALSE)
    /\ UNCHANGED <<hat, inodes, parent, open_files, opened, bvars, rvars>>

Readlink(ino) ==
    /\ ~Crashed
    /\ pure' = Request("readlink", <<ino>>,
                       IF ino \in DOMAIN inodes /\ inodes[ino].file_type.kind = "SymbolicLink"
                       THEN ReplyData(inodes[ino].file_type.ref) ELSE NoReply,
                       FALSE)
    /\ UNCHANGED <<hat, inodes, parent, open_files, opened, bvars, rvars>>

\* the fuse::FileType readdir gives a child
DirKind(file) ==
    IF file.file_type.kind = "SymbolicLink" THEN "Symlink"
    ELSE IF file.file_type.kind = "FileTop" THEN "RegularFile"
    ELSE "Directory"

\* if let Some(parent) = file.parent { files.push((parent, Directory, "..")) }
DotDot(file) ==
    IF file.parent # 0
    THEN <<[ino |-> file.parent, kind |-> "Directory", name |-> ".."]>>
    ELSE <<>>

\* the list readdir builds before it looks at the offset
DirFiles(T, ino, inos) ==
    <<[ino |-> ino, kind |-> "Directory", name |-> "."]>>
    \o DotDot(T.inodes[ino])
    \o [k \in 1..Len(inos) |->
           [ino |-> inos[k], kind |-> DirKind(T.inodes[inos[k]]),
            name |-> T.inodes[inos[k]].name]]

\* enumerate() numbers the entries from 0; entry i (from 1) is added with
\* offset + 1
NextOffset(i) == i

\* files.into_iter().enumerate().skip(offset).for_each(reply.add)
DirReply(files, offset) ==
    [k \in 1..(IF offset < Len(files) THEN Len(files) - offset ELSE 0) |->
        [ino |-> files[offset + k].ino, offset |-> NextOffset(offset + k),
         kind |-> files[offset + k].kind, name |-> files[offset + k].name]]

Readdir(ino, offset) ==
    /\ ~Crashed
    /\ IF ino \notin DOMAIN inodes
       THEN /\ pure' = Request("readdir", <<ino, offset>>, Panicked, FALSE)
            /\ UNCHANGED <<inodes, parent>>
       ELSE LET T == [inodes |-> inodes, parent |-> parent]
                isDir == inodes[ino].file_type.kind \in {"Parent", "ParentTop"}
                c == IF isDir THEN childs(T, ino)
                     ELSE [T |-> T, ok |-> TRUE, fetched |-> FALSE, inos |-> <<>>]
            IN  /\ inodes' = c.T.inodes
                /\ parent' = c.T.parent
                /\ pure' = Request("readdir", <<ino, offset>>,
                                   IF ~c.ok THEN Panicked
                                   ELSE ReplyDirectory(DirReply(DirFiles(c.T, ino, c.inos), offset)),
                                   c.fetched)
    /\ UNCHANGED <<hat, open_files, opened, bvars, rvars>>

\* the handle open chooses: self.open_files.len() + 1
NextHandle(files, handed) == Cardinality(DOMAIN files) + 1

\* FileReader::new(backend, hash_ref) fails when the tree cannot be read
ReaderOk(ref) == ref \in DOMAIN TreeFiles

\* open: only a FileTop inode is opened and replied to; the unwrap() of a
\* reader that cannot be created panics
Open(ino, maxOpens) ==
    /\ ~Crashed
    /\ Len(opened) < maxOpens
    /\ IF ino \in DOMAIN inodes /\ inodes[ino].file_type.kind = "FileTop"
       THEN IF ReaderOk(inodes[ino].file_type.ref)
            THEN LET fh == NextHandle(open_files, opened)
                     reader == new_from_iter(TRUE, TreeFiles[inodes[ino].file_type.ref])
                 IN  /\ open_files' = [h \in DOMAIN open_files \cup {fh} |->
                                         IF h = fh THEN reader ELSE open_files[h]]
                     /\ opened' = Append(opened, fh)
                     /\ pure' = Request("open", <<ino>>, ReplyOpened(fh), FALSE)
            ELSE /\ pure' = Request("open", <<ino>>, Panicked, FALSE)
                 /\ UNCHANGED <<open_files, opened>>
       ELSE /\ pure' = Request("open", <<ino>>, NoReply, FALSE)
            /\ UNCHANGED <<open_files, opened>>
    /\ UNCHANGED <<hat, inodes, parent, bvars, rvars>>

\* release: the reader of the handle is dropped
Release(fh) ==
    /\ ~Crashed
    /\ fh \in DOMAIN open_files
    /\ open_files' = [h \in DOMAIN open_files \ {fh} |-> open_files[h]]
    /\ UNCHANGED <<hat, inodes, parent, opened, pure, bvars, rvars>>

\* variant: a reader that gives None is answered with an error
ReadReplyStrict(result) ==
    IF result = Panicked THEN Panicked
    ELSE IF result = Absent THEN ReplyError("EIO")
    ELSE ReplyData(result.val)

\* match file.read(..) { None => reply.data(&[]), Some(data) => reply.data(&data) }
ReadReply(result) ==
    IF result = Panicked THEN Panicked
    ELSE IF result = Absent THEN ReplyData(<<>>)
    ELSE ReplyData(result.val)

\* read delegates to the reader of the handle; a handle that is not open is
\* not answered
FuseRead(fh, offset, size) ==
    /\ ~Crashed
    /\ IF fh \in DOMAIN open_files
       THEN LET r == read(open_files[fh], offset, size)
            IN  /\ open_files' = [open_files EXCEPT ![fh] = r.st]
                /\ pure' = Request("fuse_read", <<fh, offset, size>>, ReadReply(r.out), r.out)
       ELSE /\ pure' = Request("fuse_read", <<fh, offset, size>>, NoReply, Absent)
            /\ UNCHANGED open_files
    /\ UNCHANGED <<hat, inodes, parent, opened, bvars, rvars>>

(***************************************************************************)
(* Initial states                                                          *)
(***************************************************************************)
Keys(names) == {HexEncode(n) : n \in names}

\* CmdBackend::new() over a store that holds the blobs in `stores`.
InitBackend(stores, failures, track) ==
    /\ blobs \in stores
    /\ read_cache = EmptyCache
    /\ queue = <<>>
    /\ qlock = 0
    /\ poisoned = FALSE
    /\ writes = <<>>
    /\ budget = failures
    /\ pc = [t \in Threads |-> "idle"]
    /\ cur = [t \in Threads |-> NoCall]
    /\ last = [t \in Threads |-> IF track THEN NoLast ELSE Untracked]

NoReader ==
    /\ rd = new_from_iter(FALSE, <<>>)
    /\ chunks = <<>>
    /\ rlog = NoReads

\* no repository opened, no adapter constructed, no function called

NoAdapter ==
    /\ hat = NoHat
    /\ inodes = <<>>
    /\ parent = <<>>
    /\ open_files = <<>>
    /\ opened = <<>>
    /\ pure = NoPure

InitReader ==
    /\ InitBackend({[k \in Keys(NamesUpTo(1)) |-> NoBlob]}, Budget(0, {}), FALSE)
    /\ \E hasIter \in BOOLEAN :
         /\ chunks \in IF hasIter THEN {ChunksOf(l) : l \in ChunkLens} ELSE {<<>>}
         /\ rd = new_from_iter(hasIter, chunks)
    /\ rlog = NoReads
    /\ NoAdapter

(***************************************************************************)
(* Specifications                                                          *)
(***************************************************************************)
\* The steps of caller t that are the same in every backend specification.
CallerStep(t) ==
    \/ NewPutLock(t)
    \/ NewPutStep(t)
    \/ FlushStep(t)

ReaderStep(t) ==
    \/ RetrieveLookup(t)
    \/ RetrieveGet(t)
    \/ RetrievePut(t)
    \/ DeleteInvalidate(t)
    \/ DeleteCmd(t)

\* One caller using NumNames names over a store with any content.
Init ==
    /\ InitBackend([Keys(NamesUpTo(NumNames)) -> {NoBlob} \cup {Blob(x) : x \in Texts}],
                   Budget(MaxFails, AllKinds), TRUE)
    /\ NoReader
    /\ NoAdapter

Next ==
    \/ \E n \in NamesUpTo(NumNames), x \in Texts : StoreCall(1, n, x, MaxWritesSeq)
    \/ \E n \in NamesUpTo(NumNames) : RetrieveCall(1, n)
    \/ \E n \in NamesUpTo(NumNames) : DeleteCall(1, n)
    \/ FlushCall(1)
    \/ CallerStep(1)
    \/ ReaderStep(1)
    \/ \E i \in 1..max_concurrent, success \in BOOLEAN : ChildExit(i, success)

Spec == Init /\ [][Next]_vars

\* Several callers storing and flushing.
InitQueue ==
    /\ InitBackend({[k \in Keys(NamesUpTo(1)) |-> NoBlob]}, Budget(MaxFailsQueue, AllKinds), FALSE)
    /\ NoReader
    /\ NoAdapter

NextQueue ==
    \/ \E t \in Threads : StoreCall(t, <<0>>, <<1>>, MaxWritesQueue)
    \/ \E t \in Threads : FlushCall(t)
    \/ \E t \in Threads : CallerStep(t)
    \/ \E i \in 1..max_concurrent, success \in BOOLEAN : ChildExit(i, success)

SpecQueue == InitQueue /\ [][NextQueue]_vars

\* One caller storing more often than the queue has room, and flushing.
InitSat ==
    /\ InitBackend({[k \in Keys(NamesUpTo(1)) |-> NoBlob]}, Budget(MaxFailsSat, AllKinds), FALSE)
    /\ NoReader
    /\ NoAdapter

NextSat ==
    \/ StoreCall(1, <<0>>, <<1>>, MaxWritesSat)
    \/ FlushCall(1)
    \/ CallerStep(1)
    \/ \E i \in 1..max_concurrent, success \in BOOLEAN : ChildExit(i, success)

SpecSat == InitSat /\ [][NextSat]_vars

\* One caller storing and flushing while put helpers exit nonzero a bounded
\* number of times; every helper exits in the end and the caller keeps running.
InitRetry ==
    /\ InitBackend({[k \in Keys(NamesUpTo(1)) |-> NoBlob]},
                   Budget(MaxFailsRetry, {"exit"}), FALSE)
    /\ NoReader
    /\ NoAdapter

NextRetry ==
    \/ StoreCall(1, <<0>>, <<1>>, MaxWritesRetry)
    \/ FlushCall(1)
    \/ CallerStep(1)
    \/ \E i \in 1..max_concurrent, success \in BOOLEAN : ChildExit(i, success)

SpecRetry ==
    /\ InitRetry
    /\ [][NextRetry]_vars
    /\ WF_vars(CallerStep(1))
    /\ WF_vars(\E i \in 1..max_concurrent, success \in BOOLEAN : ChildExit(i, success))

\* One caller storing and flushing while helpers fail in any way, often enough
\* for a put helper to exit nonzero and its replacement not to start.
InitRestart ==
    /\ InitBackend({[k \in Keys(NamesUpTo(1)) |-> NoBlob]},
                   Budget(MaxFailsRestart, AllKinds), FALSE)
    /\ NoReader
    /\ NoAdapter

NextRestart ==
    \/ \E x \in Texts : StoreCall(1, <<0>>, x, MaxWritesRestart)
    \/ FlushCall(1)
    \/ CallerStep(1)
    \/ \E i \in 1..max_concurrent, success \in BOOLEAN : ChildExit(i, success)

SpecRestart == InitRestart /\ [][NextRestart]_vars

\* One caller storing more often than the queue has room while helpers fail in
\* any way; the caller keeps running (the loops of new_put and flush go on).
InitBlock ==
    /\ InitBackend({[k \in Keys(NamesUpTo(1)) |-> NoBlob]},
                   Budget(MaxFailsBlock, AllKinds), FALSE)
    /\ NoReader
    /\ NoAdapter

NextBlock ==
    \/ StoreCall(1, <<0>>, <<1>>, MaxWritesBlock)
    \/ FlushCall(1)
    \/ CallerStep(1)
    \/ \E i \in 1..max_concurrent, success \in BOOLEAN : ChildExit(i, success)

SpecBlock ==
    /\ InitBlock
    /\ [][NextBlock]_vars
    /\ WF_vars(CallerStep(1))

\* Callers storing texts that fit the pipe of a helper and texts that do not,
\* and flushing; the callers keep running, the helpers need not.
FeedTexts == {<<1>>, [i \in 1..(PipeCapacity + 1) |-> 1]}

InitFeed ==
    /\ InitBackend({[k \in Keys(NamesUpTo(1)) |-> NoBlob]},
                   Budget(MaxFailsFeed, AllKinds), FALSE)
    /\ NoReader
    /\ NoAdapter

NextFeed ==
    \/ \E t \in Threads, x \in FeedTexts : StoreCall(t, <<0>>, x, MaxWritesFeed)
    \/ \E t \in Threads : FlushCall(t)
    \/ \E t \in Threads : CallerStep(t)
    \/ \E t \in Threads : HelperReads(t)
    \/ \E i \in 1..max_concurrent, success \in BOOLEAN : ChildExit(i, success)

SpecFeed ==
    /\ InitFeed
    /\ [][NextFeed]_vars
    /\ \A t \in Threads : WF_vars(CallerStep(t))

\* Several callers retrieving and deleting one name whose blob is in the store;
\* no helper fails.
InitRace ==
    /\ InitBackend({[k \in Keys(NamesUpTo(1)) |-> Blob(<<1>>)]}, Budget(0, {}), FALSE)
    /\ NoReader
    /\ NoAdapter

NextRace ==
    \/ \E t \in Threads : RetrieveCall(t, <<0>>)
    \/ \E t \in Threads : DeleteCall(t, <<0>>)
    \/ \E t \in Threads : ReaderStep(t)

SpecRace == InitRace /\ [][NextRace]_vars

\* One caller retrieving and deleting among more names than the cache holds.
InitCache ==
    /\ InitBackend({[k \in Keys(NamesUpTo(NumCacheNames)) |-> NoBlob]}, Budget(0, {}), FALSE)
    /\ NoReader
    /\ NoAdapter

NextCache ==
    \/ \E n \in NamesUpTo(NumCacheNames) : RetrieveCall(1, n)
    \/ \E n \in NamesUpTo(NumCacheNames) : DeleteCall(1, n)
    \/ ReaderStep(1)

SpecCache == InitCache /\ [][NextCache]_vars

\* One caller making all five calls in any order, helpers failing or
\* exiting meanwhile.
NextFrame ==
    \/ Next
    \/ ListCall(1)
    \/ ListCmd(1)

SpecFrame == Init /\ [][NextFrame]_vars

MaxWritesAll == 2
MaxFailsAll == 2

\* Two threads calling store, retrieve, delete and flush on one name at any
\* time, with helpers that may fail, stall on their input, or exit.
InitAll ==
    /\ InitBackend({[k \in Keys(NamesUpTo(1)) |-> NoBlob]},
                   Budget(MaxFailsAll, AllKinds), FALSE)
    /\ NoReader
    /\ NoAdapter

NextAll ==
    \/ \E t \in Threads, x \in FeedTexts : StoreCall(t, <<0>>, x, MaxWritesAll)
    \/ \E t \in Threads : RetrieveCall(t, <<0>>)
    \/ \E t \in Threads : DeleteCall(t, <<0>>)
    \/ \E t \in Threads : FlushCall(t)
    \/ \E t \in Threads : CallerStep(t)
    \/ \E t \in Threads : ReaderStep(t)
    \/ \E t \in Threads : HelperReads(t)
    \/ \E i \in 1..max_concurrent, success \in BOOLEAN : ChildExit(i, success)

SpecAll == InitAll /\ [][NextAll]_vars

\* The FUSE adapter constructed over a repository with the snapshot list
\* snaps, its families taken in the given order.
MountedOver(snaps, order, dirs) ==
    /\ InitBackend({[k \in Keys(NamesUpTo(1)) |-> NoBlob]}, Budget(0, {}), FALSE)
    /\ NoReader
    /\ LET T == populate_from_snapshot_list([inodes |-> <<>>, parent |-> <<>>],
                                            snaps, order)
       IN  /\ hat = [snapshots |-> snaps, dirs |-> dirs]
           /\ inodes = T.inodes
           /\ parent = T.parent
    /\ open_files = <<>>
    /\ opened = <<>>
    /\ pure = NoPure

Mounted(snaps, order) == MountedOver(snaps, order, TreeDirs)

FuseFamilies == {"a", "b", ReservedFamily}

\* snapshot lists: the snapshot at position i has id i
SnapshotLists(families, refs, n) ==
    UNION {{[i \in 1..k |-> SnapshotStatus(f[i], i, r[i])] :
               f \in [1..k -> families], r \in [1..k -> refs]} : k \in 0..n}

\* Mounting any repository of up to MaxSnapshots snapshots in three families,
\* one of them the reserved one, and listing directories.
InitMount ==
    \E snaps \in SnapshotLists(FuseFamilies, {NoRef, BadRef, 1}, MaxSnapshots) :
        \E order \in Orders(FamiliesOf(snaps)) : Mounted(snaps, order)

NextMount == \E ino \in 1..Len(inodes) : Childs(ino)

SpecMount == InitMount /\ [][NextMount]_vars

\* Listing, opening, reading and releasing on an adapter mounted over one
\* snapshot in the reserved family and one in another.
InitFuse ==
    \E order \in Orders({"a", ReservedFamily}) :
        Mounted(<<SnapshotStatus(ReservedFamily, 1, 1), SnapshotStatus("a", 2, 1)>>, order)

NextFuse ==
    \/ \E ino \in 1..Len(inodes) : Childs(ino)
    \/ \E ino \in 1..Len(inodes) : Open(ino, MaxOpens)
    \/ \E fh \in DOMAIN open_files : Release(fh)
    \/ \E fh \in DOMAIN open_files, offset \in 0..MaxFuseOffset, size \in 1..MaxFuseSize :
          FuseRead(fh, offset, size)

SpecFuse == InitFuse /\ [][NextFuse]_vars

MaxReqOpens == 1
MaxDirOffset == 2

\* A snapshot root with a directory, a file, a link, an empty directory "e",
\* and a directory "b" and a file "u" whose trees the backend cannot give.
ReqDirs ==
    (1 :> <<Entry("d", Dir(2)), Entry("f", Data(10)), Entry("l", Link("f")),
            Entry("e", Dir(3)), Entry("b", Dir(4)), Entry("u", Data(12))>>)
    @@ (2 :> <<Entry("g", Data(11))>>)
    @@ (3 :> <<>>)

ReqNames == {"a", "1", "d", "e", "g", "x"}

\* The kernel's requests, on inode numbers and handles known and unknown, to
\* an adapter mounted over one snapshot of family "a".
InitReq == MountedOver(<<SnapshotStatus("a", 1, 1)>>, <<"a">>, ReqDirs)

NextReq ==
    \/ \E ino \in 0..(Len(inodes) + 1), name \in ReqNames : Lookup(ino, name)
    \/ \E ino \in 0..(Len(inodes) + 1) : Getattr(ino)
    \/ \E ino \in 0..(Len(inodes) + 1) : Readlink(ino)
    \/ \E ino \in 0..(Len(inodes) + 1), offset \in 0..MaxDirOffset : Readdir(ino, offset)
    \/ \E ino \in 0..(Len(inodes) + 1) : Open(ino, MaxReqOpens)
    \/ \E fh \in DOMAIN open_files : Release(fh)
    \/ \E fh \in 1..(MaxReqOpens + 1), offset \in 0..MaxFuseOffset, size \in 1..MaxFuseSize :
          FuseRead(fh, offset, size)

SpecReq == InitReq /\ [][NextReq]_vars

\* ls on every path of up to MaxPathLen components over three repositories:
\* an empty one, one with a single snapshot, and one with two families whose
\* snapshots have a root, no root, or a root that does not parse.
LsRepositories ==
    {<<>>,
     <<SnapshotStatus("a", 1, 1)>>,
     <<SnapshotStatus("a", 1, 1), SnapshotStatus("b", 2, 1),
       SnapshotStatus("a", 3, NoRef), SnapshotStatus("b", 4, BadRef)>>}

LsComponents == {"a", "b", "1", "2", "3", "4", "d", "f", "g", "l", "x"}

LsPaths ==
    UNION {{p \in [1..k -> LsComponents \cup {RootDir}] :
               \A i \in 2..k : p[i] # RootDir} : k \in 0..MaxPathLen}

InitLs ==
    /\ InitBackend({[k \in Keys(NamesUpTo(1)) |-> NoBlob]}, Budget(0, {}), FALSE)
    /\ NoReader
    /\ \E snaps \in LsRepositories : hat = [snapshots |-> snaps, dirs |-> TreeDirs]
    /\ inodes = <<>>
    /\ parent = <<>>
    /\ open_files = <<>>
    /\ opened = <<>>
    /\ \E path \in LsPaths : pure = [fn |-> "none", arg |-> path, out |-> <<>>]

NextLs == Ls

SpecLs == InitLs /\ [][NextLs]_vars

\* FileName conversions on every byte sequence of up to MaxNameLen bytes over
\* an ASCII byte, continuation bytes, and lead bytes of every width with the
\* ones whose second byte is restricted (E0, ED, F0, F4) and invalid ones
\* (C0, FF).
NameBytes == {65, 128, 144, 160, 191, 192, 195, 224, 237, 240, 244, 255}

NameInputs == UNION {[1..n -> NameBytes] : n \in 0..MaxNameLen}

InitName ==
    /\ InitBackend({[k \in Keys(NamesUpTo(1)) |-> NoBlob]}, Budget(0, {}), FALSE)
    /\ NoReader
    /\ hat = NoHat
    /\ inodes = <<>>
    /\ parent = <<>>
    /\ open_files = <<>>
    /\ opened = <<>>
    /\ \E v \in NameInputs : pure = [fn |-> "none", arg |-> v, out |-> <<>>]

NextName == FileNameRoundTrip

SpecName == InitName /\ [][NextName]_vars

\* The hash tree written from every stream of up to MaxTreeBytes bytes, cut
\* in every way into chunks within every limit L >= 1, with every fan-out
\* F >= 2.
TreeStreams == UNION {[1..n -> {0, 1}] : n \in 0..MaxTreeBytes}

InitTree ==
    /\ InitBackend({[k \in Keys(NamesUpTo(1)) |-> NoBlob]}, Budget(0, {}), FALSE)
    /\ NoReader
    /\ hat = NoHat
    /\ inodes = <<>>
    /\ parent = <<>>
    /\ open_files = <<>>
    /\ opened = <<>>
    /\ \E B \in TreeStreams, L \in 1..MaxChunkLimit, F \in 2..MaxFanOut :
          \E cs \in Chunkings(B, L) :
              pure = [fn |-> "none",
                      arg |-> [B |-> B, L |-> L, F |-> F, chunks |-> cs],
                      out |-> <<>>]

NextTree == HashTreeRoundTrip

SpecTree == InitTree /\ [][NextTree]_vars

\* The directory round trip of the fuzz targets, for FileInfo messages with
\* names of either variant (empty ones and a raw form with an unrelated alias
\* included), known and unknown timestamps and lengths, with and without
\* owner and permissions, written at any of two times.
InfoNames ==
    {Utf8(<<>>), Utf8(<<65>>), Utf8(<<195, 160>>),
     RawAndLossyUtf8(<<>>, <<65>>),
     RawAndLossyUtf8(<<255>>, Replacement),
     RawAndLossyUtf8(<<65>>, <<65, 65>>)}
InfoTimes == {-1, 0, 5}
InfoLengths == {-1, 0, 3}
InfoOwners == {OwnerNone, UserGroup(1, 2)}
InfoPermissions == {PermissionsNone, Mode(493)}
WriteTimes == {5, 9}

InitDir ==
    /\ InitBackend({[k \in Keys(NamesUpTo(1)) |-> NoBlob]}, Budget(0, {}), FALSE)
    /\ NoReader
    /\ hat = NoHat
    /\ inodes = <<>>
    /\ parent = <<>>
    /\ open_files = <<>>
    /\ opened = <<>>
    /\ \E name \in InfoNames, c \in InfoTimes, m \in InfoTimes, a \in InfoTimes,
          l \in InfoLengths, o \in InfoOwners, p \in InfoPermissions, s \in InfoTimes :
          pure = [fn |-> "none", arg |-> FileInfo(name, c, m, a, l, o, p, s), out |-> <<>>]

NextDir ==
    \/ \E now \in WriteTimes, F \in 2..MaxFanOut : SnapshotCommit(now, F)
    \/ LsSnapshot

SpecDir == InitDir /\ [][NextDir]_vars

\* A FileReader over any chunk sequence, read at any offsets.
(***************************************************************************)
(* The older FileReader of hat::fuse (hat/fuse.rs 44-105); next, from and   *)
(* take are the same text as in vfs::fs                                     *)
(***************************************************************************)
\* FileReader::new of hat::fuse: eof starts false also without an iterator
hat_new(hasIter, items) ==
    [rest |-> [some |-> hasIter, items |-> items],
     eof |-> FALSE, offset |-> 0, buf |-> <<>>]

\* the condition of its advance loop
HatAdvanceMore(st, offset) ==
    st.offset + Len(st.buf) < offset \/ st.buf = <<>>

RECURSIVE hat_advance(_, _)
hat_advance(st, offset) ==
    IF HatAdvanceMore(st, offset)
    THEN LET s == next(st) IN IF s.eof THEN s ELSE hat_advance(s, offset)
    ELSE st

RECURSIVE hat_read(_, _, _)
hat_read(st, offset, size) ==
    LET s == hat_advance(st, offset)
    IN  IF s.eof THEN [st |-> s, out |-> Absent]
        ELSE IF ~FromOk(s, offset) THEN [st |-> s, out |-> Panicked]
        ELSE IF from(s, offset) = <<>> THEN [st |-> s, out |-> Absent]
        ELSE LET avail == Len(from(s, offset))
             IN  IF size <= avail
                 THEN [st |-> s,
                       out |-> IF TakeOk(s, offset, size)
                               THEN Present(take(s, offset, size)) ELSE Panicked]
                 ELSE IF ~TakeOk(s, offset, avail) THEN [st |-> s, out |-> Panicked]
                 ELSE LET more == hat_read(s, offset + avail, size - avail)
                      IN  [st |-> more.st,
                           out |-> IF more.out = Panicked THEN Panicked
                                   ELSE IF more.out = Absent
                                        THEN Present(take(s, offset, avail))
                                   ELSE Present(take(s, offset, avail) \o more.out.val)]

\* The same read(offset, size) made on a vfs::fs reader and on a hat::fuse
\* reader (kept as handle 1 of open_files) over the same chunks.
ReadBoth(offset, size) ==
    /\ rlog.out # Panicked
    /\ pure.out # Panicked
    /\ rlog.n = 0 \/ offset >= rlog.offset + rlog.size
    /\ LET r == read(rd, offset, size)
           h == hat_read(open_files[1], offset, size)
       IN  /\ rd' = r.st
           /\ open_files' = [open_files EXCEPT ![1] = h.st]
           /\ rlog' = [n |-> Min(rlog.n + 1, 2),
                       offset |-> offset, size |-> size, out |-> r.out,
                       mono |-> TRUE, seq |-> TRUE]
           /\ pure' = [fn |-> "hat_read", arg |-> <<offset, size>>, out |-> h.out]
    /\ UNCHANGED <<chunks, hat, inodes, parent, opened, bvars>>

InitTwin ==
    /\ InitBackend({[k \in Keys(NamesUpTo(1)) |-> NoBlob]}, Budget(0, {}), FALSE)
    /\ \E hasIter \in BOOLEAN :
         /\ chunks \in IF hasIter THEN {ChunksOf(l) : l \in ChunkLens} ELSE {<<>>}
         /\ rd = new_from_iter(hasIter, chunks)
         /\ open_files = <<hat_new(hasIter, chunks)>>
    /\ rlog = NoReads
    /\ hat = NoHat
    /\ inodes = <<>>
    /\ parent = <<>>
    /\ opened = <<>>
    /\ pure = NoPure

NextTwin == \E offset \in 0..MaxOffset, size \in 0..MaxSize : ReadBoth(offset, size)

SpecTwin == InitTwin /\ [][NextTwin]_vars

NextReader == \E offset \in 0..MaxOffset, size \in 0..MaxSize : Read(offset, size)

SpecReader == InitReader /\ [][NextReader]_vars

(***************************************************************************)
(* Properties                                                              *)
(***************************************************************************)
\* caller t has completed retrieve(name) directly after a call sequence
\* summarised as kind k on the same name
RetrievedAfter(t, k) ==
    /\ pc[t] = "idle"
    /\ cur[t].op = "retrieve"
    /\ last[t].k = k
    /\ last[t].name = cur[t].name

\* C1: once store(name, X) followed by flush() has returned, retrieve(name)
\* returns Some(X), after any earlier calls on the backend; stated here for
\* the nonempty X and the runs in which no helper ever fails.
C1_StoreFlushRetrieve ==
    \A t \in Threads :
        (RetrievedAfter(t, "flushed") /\ last[t].val # <<>> /\ budget.left = MaxFails)
            => cur[t].res = OkSome(last[t].val)

\* C2: a flush returns only on an empty write queue, and by then the done
\* callback of every store that had returned Ok when flush was called has been
\* invoked, also with other callers storing and flushing.
C2_FlushDrains ==
    [][\A t \in Threads :
          (pc[t] = "flush" /\ pc'[t] = "idle")
              => /\ queue = <<>>
                 /\ queue' = <<>>
                 /\ cur[t].pre \subseteq DoneFired(writes')]_vars

C2_Witness ==
    \E t, u \in Threads :
        /\ pc[t] = "idle" /\ cur[t].op = "flush" /\ cur[t].res = OkUnit
        /\ pc[u] = "new_put_locked"
        /\ Cardinality(DoneFired(writes)) >= 2
        /\ \E w \in DOMAIN writes : writes[w].starts = 2 /\ writes[w].done = 1

\* C3: the done callback of a write is invoked at most once, only for an
\* admitted write one of whose put helpers has exited with success; every
\* queued write, restarted or not, carries the context it was admitted with.
C3_DoneOnce ==
    /\ \A w \in DOMAIN writes :
          /\ writes[w].done <= 1
          /\ writes[w].done = 1 => writes[w].admitted /\ writes[w].okExit
    /\ \A i \in 1..Len(queue) :
          /\ queue[i].context.done_callback \in DOMAIN writes
          /\ queue[i].context = writes[queue[i].context.done_callback].context
          /\ writes[queue[i].context.done_callback].done = 0
          /\ \A j \in 1..Len(queue) :
                queue[j].context.done_callback = queue[i].context.done_callback => j = i

C3_Witness ==
    \E w, v \in DOMAIN writes :
        /\ writes[w].starts = 2 /\ writes[w].done = 1
        /\ writes[v].starts = 1 /\ writes[v].okExit /\ writes[v].done = 0

\* C4: when put helpers exit nonzero finitely often and every helper exits, a
\* store terminates, and a flush terminates with Ok once every admitted write
\* has had its done callback invoked exactly once.
C4_RetryTerminates ==
    /\ (pc[1] \in {"new_put", "new_put_locked"}) ~> (pc[1] = "idle")
    /\ (pc[1] = "flush")
          ~> (/\ pc[1] = "idle" /\ cur[1].op = "flush" /\ cur[1].res = OkUnit
              /\ \A w \in Admitted(writes) : writes[w].done = 1)

C4_Witness ==
    /\ pc[1] = "idle" /\ cur[1].op = "flush" /\ cur[1].res = OkUnit
    /\ \E w \in DOMAIN writes : writes[w].starts = MaxFailsRetry + 1 /\ writes[w].done = 1

\* C5: the write queue never holds more than max_concurrent writes, also
\* while the progress step restarts failed writes.
C5_BoundedQueue == Len(queue) <= max_concurrent

C5_Witness ==
    /\ Len(queue) = max_concurrent
    /\ pc[1] = "new_put_locked"
    /\ queue[max_concurrent].context.done_callback < max_concurrent
    /\ writes[queue[max_concurrent].context.done_callback].starts = 2

\* C6: after delete(name) has returned Ok, the caller's next retrieve(name),
\* unless it fails, returns not-found.
C6_RetrieveAfterDelete ==
    \A t \in Threads :
        (RetrievedAfter(t, "deleted") /\ cur[t].res.tag # "err")
            => cur[t].res = OkNone

\* C7: a retrieve(name) directly after a retrieve(name) returns the same
\* result and does not run the get helper.
C7_RetrieveIdempotent ==
    \A t \in Threads :
        RetrievedAfter(t, "retrieved") => cur[t].res = last[t].res /\ ~cur[t].ran

\* the second retrieve answers not-found from the cache although a put helper
\* has stored the blob since the first
C7_Witness ==
    \E t \in Threads :
        /\ RetrievedAfter(t, "retrieved")
        /\ cur[t].res = OkNone
        /\ blobs[HexEncode(cur[t].name)].has

\* C8: the read cache never holds more than max_cache_size entries, and an
\* insert into a cache holding max_cache_size entries leaves exactly the
\* inserted entry.
C8_CacheBound ==
    [][/\ Cardinality(DOMAIN read_cache') <= max_cache_size
       /\ \A t \in Threads :
             (pc[t] = "cache_put" /\ pc'[t] = "idle"
                 /\ Cardinality(DOMAIN read_cache) >= max_cache_size)
                 => DOMAIN read_cache' = {cur[t].name}]_vars

\* an insert into a full cache has happened and left one entry
C8_Witness ==
    \E t \in Threads :
        /\ pc[t] = "idle" /\ cur[t].op = "retrieve"
        /\ Cardinality(cur[t].pre) = max_cache_size
        /\ Cardinality(DOMAIN read_cache) = 1

\* what read(offset, size) is to return on a file of bytes R
Expected(R, offset, size) ==
    IF offset >= Len(R) THEN Absent
    ELSE Present(Slice(R, offset, Min(offset + size, Len(R))))

\* C9: the first read(offset, size) of a fresh reader is absent only if
\* offset >= |R|, else exactly R[offset .. min(offset+size, |R|)] (of length
\* |R| - offset when offset+size > |R|); it is present at offset >= |R| only
\* for size = 0.
C9_FirstRead ==
    rlog.n = 1 =>
        LET R == Concat(chunks)
        IN  /\ rlog.out # Panicked
            /\ rlog.out = Absent => rlog.offset >= Len(R)
            /\ rlog.offset < Len(R) => rlog.out = Expected(R, rlog.offset, rlog.size)
            /\ (rlog.offset < Len(R) /\ rlog.offset + rlog.size > Len(R))
                  => Len(rlog.out.val) = Len(R) - rlog.offset
            /\ (rlog.out.tag = "some" /\ rlog.offset >= Len(R)) => rlog.size = 0

\* a first read that starts inside the first chunk, passes an empty chunk and
\* ends at the end of the file
C9_Witness ==
    /\ rlog.n = 1
    /\ Len(chunks) = 3 /\ chunks[2] = <<>> /\ Len(chunks[1]) = 2 /\ Len(chunks[3]) = 2
    /\ rlog.offset = 1 /\ rlog.size > 3
    /\ rlog.out = Present(<<2, 3, 4>>)

\* C10: in any sequence of reads with non-decreasing offsets, every read
\* returns R[offset .. min(offset+size, |R|)] when offset < |R| and absent
\* exactly when offset >= |R|.
C10_SliceLaw ==
    (rlog.n >= 1 /\ rlog.mono)
        => rlog.out = Expected(Concat(chunks), rlog.offset, rlog.size)

\* C18: no helper failure, a failure to start the replacement helper included,
\* makes an admitted write leave the queue without its done callback having
\* fired, or makes a call on the backend abort.
C18_RestartNeverLoses ==
    /\ \A w \in Admitted(writes) :
          \/ writes[w].done >= 1
          \/ \E i \in 1..Len(queue) : queue[i].context = writes[w].context
    /\ \A t \in Threads : pc[t] # "panicked"
    /\ ~poisoned

\* C19: a retrieve whose get helper failed (could not be spawned, exited
\* nonzero or was killed) returns an error.
C19_FailedGetSurfaced ==
    \A t \in Threads :
        (pc[t] = "idle" /\ cur[t].op = "retrieve"
            /\ cur[t].helper \in {"exit_fail", "spawn_err"})
            => cur[t].res.tag = "err"

\* C20: a delete returns an error whenever its helper failed, and Ok only
\* when the helper exited with success.
C20_FailedDeleteSurfaced ==
    \A t \in Threads :
        (pc[t] = "idle" /\ cur[t].op = "delete")
            => (cur[t].res = OkUnit <=> cur[t].helper = "ok")

\* C13: every handle the adapter's open replies with is strictly greater
\* than every handle an earlier open replied with, whatever opens and
\* releases came before.
C13_HandlesIncrease ==
    \A i, j \in 1..Len(opened) : i < j => opened[i] < opened[j]

\* the inodes whose parent is inode p
ChildrenOf(p) == {i \in 1..Len(inodes) : inodes[i].parent = p}

\* the families the root listing is to show
VisibleFamilies == FamiliesOf(hat.snapshots) \ {ReservedFamily}

\* C14: the root directory, inode 1, has exactly one child directory for
\* every family other than the reserved one that has a snapshot, and the
\* inode table holds no inode for the reserved family or any of its snapshots:
\* every snapshot directory belongs to a snapshot of the visible family it
\* is listed under.
C14_ReservedHidden ==
    /\ Len(inodes) >= 1
    /\ inodes[1].name = "root" /\ inodes[1].parent = 0
    /\ {inodes[i].name : i \in ChildrenOf(1)} = VisibleFamilies
    /\ Cardinality(ChildrenOf(1)) = Cardinality(VisibleFamilies)
    /\ \A i \in ChildrenOf(1) :
          /\ inodes[i].attr.kind = "Directory"
          /\ inodes[i].file_type = Parent
          /\ i \in DOMAIN parent
                => \A k \in 1..Len(parent[i]) : inodes[parent[i][k]].parent = i
          /\ \A c \in ChildrenOf(i) :
                \E n \in 1..Len(hat.snapshots) :
                    /\ hat.snapshots[n].family_name = inodes[i].name
                    /\ hat.snapshots[n].family_name # ReservedFamily
                    /\ inodes[c].name = ToString(hat.snapshots[n].snapshot_id)
                    /\ inodes[c].file_type = ParentTop(hat.snapshots[n].hash_ref)
    /\ (1 \in DOMAIN parent => {parent[1][k] : k \in 1..Len(parent[1])} = ChildrenOf(1))
    /\ (1 \notin DOMAIN parent => ChildrenOf(1) = {})

\* a repository with a snapshot in the reserved family and one in another
\* family, whose snapshot directory has been listed
C14_Witness ==
    /\ Len(hat.snapshots) = 2
    /\ hat.snapshots[1] = SnapshotStatus(ReservedFamily, 1, 1)
    /\ hat.snapshots[2] = SnapshotStatus("a", 2, 1)
    /\ Len(inodes) = 6
    /\ parent[1] = <<2>>
    /\ parent[3] = <<4, 5, 6>>

Missing == [tag |-> "missing", val |-> <<>>]

\* What a path names in the repository, by descent through the tree:
\* the listing a path below a snapshot root leads to, Missing when one of
\* its components names nothing.
RECURSIVE Descend(_, _, _)
Descend(h, ref, comps) ==
    IF comps = <<>> THEN ListDir(h.dirs[ref])
    ELSE LET named == {i \in 1..Len(h.dirs[ref]) : h.dirs[ref][i].name = Head(comps)}
         IN  IF named = {} THEN Missing
             ELSE LET e == h.dirs[ref][CHOOSE i \in named : TRUE]
                  IN  IF e.content.kind = "dir"
                          THEN Descend(h, e.content.ref, Tail(comps))
                      ELSE IF Len(comps) = 1 THEN ListDir(<<e>>)
                      ELSE Missing

\* the snapshots of family f with id n (as a decimal string)
SnapshotsNamed(h, f, n) ==
    {i \in 1..Len(h.snapshots) :
        h.snapshots[i].family_name = f /\ ToString(h.snapshots[i].snapshot_id) = n}

\* C11: ls maps no component, or the root, to Root with all snapshots; one
\* component to Snapshots with exactly the snapshots of that family, in
\* order; family/id and family/id/d1/.../dn, for a snapshot that has a root
\* directory, to Dir with the listing reached by matching each di against the
\* entry names of the previous directory.
C11_LsByComponents ==
    pure.fn = "ls" =>
        LET path == pure.arg
        IN  /\ (path = <<>> \/ Head(path) = RootDir) => pure.out = Root(hat.snapshots)
            /\ (Len(path) = 1 /\ path[1] # RootDir)
                  => /\ pure.out.tag = "Snapshots"
                     /\ LET at == {i \in 1..Len(hat.snapshots) :
                                      hat.snapshots[i].family_name = path[1]}
                        IN  /\ Len(pure.out.val) = Cardinality(at)
                            /\ \A i \in at :
                                  pure.out.val[Cardinality({j \in at : j <= i})]
                                      = hat.snapshots[i]
            /\ (Len(path) >= 2 /\ path[1] # RootDir)
                  => \A i \in SnapshotsNamed(hat, path[1], path[2]) :
                        hat.snapshots[i].hash_ref > 0
                          => LET want == Descend(hat, hat.snapshots[i].hash_ref,
                                                 SubSeq(path, 3, Len(path)))
                             IN  want # Missing => pure.out = want

\* ls of family/id/d/g: the file's single entry, reached through a directory
C11_Witness ==
    /\ pure.fn = "ls"
    /\ pure.arg = <<"b", "2", "d", "g">>
    /\ Len(hat.snapshots) = 4
    /\ pure.out = ListDir(<<Entry("g", Data(11))>>)

\* a path has a component that names nothing: a family without snapshots,
\* an id no snapshot of the family has, or a name no entry of the directory has
MissingComponent(h, path) ==
    \/ Len(path) >= 1
          /\ \A i \in 1..Len(h.snapshots) : h.snapshots[i].family_name # path[1]
    \/ Len(path) >= 2 /\ SnapshotsNamed(h, path[1], path[2]) = {}
    \/ Len(path) >= 3
          /\ \E i \in SnapshotsNamed(h, path[1], path[2]) :
                /\ h.snapshots[i].hash_ref > 0
                /\ Descend(h, h.snapshots[i].hash_ref, SubSeq(path, 3, Len(path)))
                      = Missing

\* C12: ls returns absent, neither an error nor a present listing, whenever
\* a component of the path does not exist.
C12_MissingIsAbsent ==
    (pure.fn = "ls" /\ pure.arg # <<>> /\ Head(pure.arg) # RootDir
        /\ MissingComponent(hat, pure.arg))
        => pure.out = LsNone

\* The Unicode scalar value the bytes b encode, by the bit layout of UTF-8,
\* or -1 when b is not the shortest encoding of a scalar value.
Scalar(b) ==
    LET c(k) == b[k] - 128
        isc(k) == b[k] >= 128 /\ b[k] <= 191
        cp == CASE Len(b) = 1 -> b[1]
                [] Len(b) = 2 -> (b[1] - 192) * 64 + c(2)
                [] Len(b) = 3 -> (b[1] - 224) * 4096 + c(2) * 64 + c(3)
                [] Len(b) = 4 -> (b[1] - 240) * 262144 + c(2) * 4096 + c(3) * 64 + c(4)
        ok == CASE Len(b) = 1 -> b[1] < 128
                [] Len(b) = 2 -> b[1] >= 192 /\ b[1] <= 223 /\ isc(2) /\ cp >= 128
                [] Len(b) = 3 -> /\ b[1] >= 224 /\ b[1] <= 239 /\ isc(2) /\ isc(3)
                                 /\ cp >= 2048 /\ ~(cp >= 55296 /\ cp <= 57343)
                [] Len(b) = 4 -> /\ b[1] >= 240 /\ b[1] <= 247 /\ isc(2) /\ isc(3) /\ isc(4)
                                 /\ cp >= 65536 /\ cp <= 1114111
    IN  IF ok THEN cp ELSE -1

\* S is valid UTF-8: it can be cut into encodings of scalar values
IsUtf8(S) ==
    \E cuts \in SUBSET (0..Len(S)) :
        /\ 0 \in cuts /\ Len(S) \in cuts
        /\ \A i \in cuts \ {Len(S)} :
              \E j \in cuts : /\ j > i /\ j <= i + 4
                              /\ \A m \in cuts : ~(m > i /\ m < j)
                              /\ Scalar(SubSeq(S, i + 1, j)) >= 0

\* C15: converting a byte sequence S to a FileName and back to bytes yields
\* S; the FileName is the Utf8 variant exactly when S is valid UTF-8, and
\* otherwise RawAndLossyUtf8 with S unchanged as its raw form.
C15_FileNameRoundTrip ==
    pure.fn = "filename" =>
        /\ pure.out.bytes = pure.arg
        /\ pure.out.name.variant = "Utf8" <=> IsUtf8(pure.arg)
        /\ pure.out.name.variant # "Utf8"
              => /\ pure.out.name.variant = "RawAndLossyUtf8"
                 /\ pure.out.name.raw = pure.arg

\* a name that is not UTF-8 (an encoded surrogate) has been converted both ways
C15_Witness ==
    /\ pure.fn = "filename"
    /\ pure.arg = <<65, 237, 160, 128>>
    /\ pure.out.name = RawAndLossyUtf8(<<65, 237, 160, 128>>,
                                       <<65, 239, 191, 189, 239, 191, 189, 239, 191, 189>>)
    /\ pure.out.bytes = pure.arg

\* C17: for every byte sequence B, the empty one included, every chunk size
\* limit L >= 1 and every fan-out F >= 2, the written tree is left with a
\* single root, and the chunks an in-order leaf iteration from that root
\* yields concatenate to B.
C17_HashTreeRoundTrip ==
    pure.fn = "hash_tree" =>
        /\ Len(pure.out.roots) = 1
        /\ Concat(pure.out.leaves[1]) = pure.arg.B
        /\ \A i \in 1..Len(pure.out.leaves[1]) : Len(pure.out.leaves[1][i]) <= pure.arg.L

\* five one-byte chunks with fan-out 2: a root of height 3 over an uneven tree
C17_Witness ==
    /\ pure.fn = "hash_tree"
    /\ pure.arg.B = <<0, 1, 1, 0, 1>>
    /\ pure.arg.L = 1
    /\ pure.arg.F = 2
    /\ Len(pure.out.roots) = 1
    /\ pure.out.roots[1].height = 3
    /\ pure.out.leaves[1] = <<<<0>>, <<1>>, <<1>>, <<0>>, <<1>>>>

RECURSIVE EntryAt(_, _, _)
EntryAt(h, ref, comps) ==
    LET named == {i \in 1..Len(h.dirs[ref]) : h.dirs[ref][i].name = Head(comps)}
    IN  IF named = {} THEN [tag |-> "missing", val |-> <<>>]
        ELSE LET e == h.dirs[ref][CHOOSE i \in named : TRUE]
             IN  IF Len(comps) = 1 THEN [tag |-> "entry", val |-> <<e>>]
                 ELSE IF e.content.kind = "dir"
                     THEN EntryAt(h, e.content.ref, Tail(comps))
                 ELSE [tag |-> "past", val |-> <<e>>]

\* C29: ls of a path whose last component names a file or a symbolic link is
\* Dir with exactly that (Entry, Content) pair; ls of a path that goes on
\* past a file or a symbolic link is absent.
C29_LsFileEntry ==
    (pure.fn = "ls" /\ Len(pure.arg) >= 3 /\ pure.arg[1] # RootDir) =>
        \A i \in SnapshotsNamed(hat, pure.arg[1], pure.arg[2]) :
            hat.snapshots[i].hash_ref > 0 =>
                LET at == EntryAt(hat, hat.snapshots[i].hash_ref,
                                  SubSeq(pure.arg, 3, Len(pure.arg)))
                IN  /\ (at.tag = "entry" /\ at.val[1].content.kind \in {"data", "link"})
                          => pure.out = ListDir(at.val)
                    /\ at.tag = "past" => pure.out = LsNone

\* ls of a symbolic link, and of a path through a file
C29_Witness ==
    /\ pure.fn = "ls"
    /\ \/ /\ pure.arg = <<"a", "1", "l">>
          /\ pure.out = ListDir(<<Entry("l", Link("f"))>>)
       \/ /\ pure.arg = <<"a", "1", "f", "x">>
          /\ pure.out = LsNone
    /\ Len(hat.snapshots) = 1

\* the inode numbers pushed to the child lists, in any order
ChildNumbers ==
    UNION {{<<p, i>> : i \in 1..Len(parent[p])} : p \in DOMAIN parent}

\* C30: inode numbers come from a counter: 'root' is inode 1 and has no
\* parent, the keys of the inode table are exactly 1..n, every entry's
\* attr.ino is its key, and no number is handed out twice: every inode but the
\* root is found exactly once in the child lists, in the list of its parent,
\* and every child list is increasing.
C30_InodeCounter ==
    /\ DOMAIN inodes = 1..Cardinality(DOMAIN inodes)
    /\ \A i \in DOMAIN inodes : inodes[i].attr.ino = i
    /\ inodes # <<>> => inodes[1].name = "root" /\ inodes[1].parent = 0
    /\ \A i \in DOMAIN inodes \ {1} :
          /\ inodes[i].parent \in DOMAIN parent
          /\ Cardinality({c \in ChildNumbers : parent[c[1]][c[2]] = i}) = 1
          /\ \E k \in 1..Len(parent[inodes[i].parent]) : parent[inodes[i].parent][k] = i
    /\ \A c \in ChildNumbers : parent[c[1]][c[2]] \in DOMAIN inodes \ {1}
    /\ \A p \in DOMAIN parent : \A j, k \in 1..Len(parent[p]) :
          j < k => parent[p][j] < parent[p][k]

\* a mounted adapter that has added inodes for two families, two snapshots
\* and the entries of a snapshot's directory and of a directory inside it
C30_Witness ==
    /\ Len(inodes) >= 9
    /\ \E i \in DOMAIN inodes :
          /\ inodes[i].file_type.kind = "FileTop"
          /\ inodes[i].name = "g"
          /\ inodes[i].attr.ino = i
          /\ inodes[inodes[i].parent].name = "d"

\* C21: getattr, readdir, readlink and open on an inode number that is not in
\* the inode table, and lookup of a name that is not a child of the parent,
\* are answered with ENOENT.
IsChildName(par, name) ==
    /\ par \in DOMAIN parent
    /\ \E k \in 1..Len(parent[par]) : inodes[parent[par][k]].name = name

C21_UnknownIsENOENT ==
    /\ (pure.fn \in {"getattr", "readdir", "readlink", "open"}
            /\ pure.arg[1] \notin DOMAIN inodes)
        => pure.out = ReplyError("ENOENT")
    /\ (pure.fn = "lookup" /\ pure.out # Panicked
            /\ ~IsChildName(pure.arg[1], pure.arg[2]))
        => pure.out = ReplyError("ENOENT")

\* C22: a lookup or readdir that materializes a ParentTop whose directory
\* cannot be fetched, and an open whose reader cannot be created, are answered
\* with EIO and the adapter keeps serving.
Unfetchable(ino) ==
    /\ ino \in DOMAIN inodes
    /\ inodes[ino].file_type.kind = "ParentTop"
    /\ ~LsRefOk(hat, inodes[ino].file_type.ref)

Unopenable(ino) ==
    /\ ino \in DOMAIN inodes
    /\ inodes[ino].file_type.kind = "FileTop"
    /\ ~ReaderOk(inodes[ino].file_type.ref)

C22_FailureIsEIO ==
    /\ (pure.fn \in {"lookup", "readdir"} /\ Unfetchable(pure.arg[1]))
        => (pure.out = ReplyError("EIO") /\ ~Crashed)
    /\ (pure.fn = "open" /\ Unopenable(pure.arg[1]))
        => (pure.out = ReplyError("EIO") /\ ~Crashed)

\* C26: once a lookup or readdir has enumerated a directory, the next lookup
\* or readdir of the same inode does not run fetch_dir and leaves the inode
\* tables as they are.
Enumerated(req) ==
    /\ req.fn \in {"lookup", "readdir"}
    /\ req.out # Panicked
    /\ req.arg[1] \in DOMAIN inodes
    /\ inodes[req.arg[1]].file_type.kind = "ParentTop"

C26_FetchedOnce ==
    [][(Enumerated(pure) /\ pure' # pure /\ pure'.fn \in {"lookup", "readdir"}
            /\ pure'.arg[1] = pure.arg[1])
        => (~pure'.aux /\ inodes' = inodes /\ parent' = parent)]_vars

\* C27: readdir of a directory inode, the root included, lists ".", then
\* "..", then every materialized child once in insertion order; with offset k
\* it emits the entries at positions k, k+1, ... (from 0) and tags the entry at
\* position i with i+1.
FullListing(ino) ==
    <<".", "..">>
    \o (IF ino \in DOMAIN parent
        THEN [k \in 1..Len(parent[ino]) |-> inodes[parent[ino][k]].name]
        ELSE <<>>)

C27_ReaddirListing ==
    (pure.fn = "readdir" /\ pure.out.tag = "dir"
        /\ inodes[pure.arg[1]].file_type.kind \in {"Parent", "ParentTop"})
    => LET full == FullListing(pure.arg[1])
           k == pure.arg[2]
           got == pure.out.val
       IN  /\ Len(got) = (IF k < Len(full) THEN Len(full) - k ELSE 0)
           /\ \A j \in 1..Len(got) :
                  got[j].name = full[k + j] /\ got[j].offset = k + j

\* C28: a read on an open handle whose reader gives nothing is answered with
\* an empty data reply, and a slice the reader gives is answered with exactly
\* those bytes.
C28_ReadReply ==
    (pure.fn = "fuse_read" /\ pure.arg[1] \in DOMAIN open_files)
    => /\ pure.aux = Absent => pure.out = ReplyData(<<>>)
       /\ pure.aux.tag = "some" => pure.out = ReplyData(pure.aux.val)

C28_Witness ==
    /\ pure.fn = "fuse_read"
    /\ pure.arg = <<1, 2, 2>>
    /\ pure.out = ReplyData(<<3>>)
    /\ 1 \in DOMAIN open_files

\* C23: every store call that admits a write polls the outstanding writes, so
\* a write whose helper has exited with success has had its done callback
\* called when the next store call has admitted its write.
C23_PollsOnAdmission ==
    [][\A w \in DOMAIN writes :
          (~writes[w].admitted /\ writes'[w].admitted)
          => \A i \in 1..Len(queue) :
                queue[i].child = "ok"
                => writes'[queue[i].context.done_callback].done >= 1]_vars

\* C24: a store call that waits on a saturated queue returns once one of the
\* outstanding helpers has exited with success.
C24_SaturatedStoreReturns ==
    (pc[1] = "new_put_locked" /\ Saturated(queue)
        /\ \E i \in 1..Len(queue) : queue[i].child = "ok")
    ~> (pc[1] = "idle")

\* C25: while fewer than max_concurrent writes are outstanding, a store call
\* returns whether or not any helper reads its input or exits, and whatever
\* the other callers do.
C25_StoreReturns ==
    \A t \in Threads :
        (pc[t] = "new_put" /\ ~Saturated(queue))
        ~> (pc[t] = "idle" \/ Saturated(queue))

\* C31: once a delete of the name has returned and no call is running, the
\* read cache does not hold the deleted bytes, so that no later retrieve
\* returns them.
C31_DeleteWinsRace ==
    (/\ \A t \in Threads : pc[t] = "idle"
     /\ \E t \in Threads : cur[t].op = "delete" /\ cur[t].res = OkUnit)
    => ~(CacheHas(read_cache, <<0>>) /\ read_cache[<<0>>].tag = "some")

\* C32: open never hands out a handle that is open at that moment, so the
\* reader of a file that is still open is never replaced.
C32_NoHandleReuse ==
    [][Len(opened') > Len(opened)
        => opened'[Len(opened')] \notin DOMAIN open_files]_vars

\* C33: in a sequence of reads in which every read starts at or after the end
\* of the one before, no assertion of from and no slice bound of take fails.
C33_SequentialNoPanic == (rlog.n >= 1 /\ rlog.seq) => rlog.out # Panicked

\* a later read of such a sequence that starts on a chunk boundary and ends in
\* the chunk after
C33_Witness ==
    /\ rlog.n = 2 /\ rlog.seq
    /\ Len(chunks) = 3 /\ Len(chunks[1]) = 2 /\ Len(chunks[2]) = 1 /\ Len(chunks[3]) = 2
    /\ rlog.offset = 2 /\ rlog.size = 2
    /\ rlog.out = Present(<<3, 4>>)

\* C34: over the same chunks and the same sequential reads, the reader of
\* hat::fuse and the reader of vfs::fs give the same result: both absent or
\* both present with the same bytes.
C34_ReadersAgree == pure.fn = "hat_read" => pure.out = rlog.out

\* C35: a store whose put helper cannot be started or fed returns an error;
\* its write is not queued, no helper is ever started for it again, and its
\* done callback is never called: a write is admitted only by the step in
\* which its own store call returns Ok.
C35_FailedStoreDropped ==
    /\ [](\A w \in DOMAIN writes :
            ~writes[w].admitted
            => /\ writes[w].done = 0
               /\ writes[w].starts = 0
               /\ \A i \in 1..Len(queue) : queue[i].context.done_callback # w)
    /\ [][\A t \in Threads :
            (pc[t] \in {"new_put_locked", "start_child"} /\ pc'[t] = "idle")
            => IF cur'[t].res = OkUnit
               THEN writes'[cur[t].id].admitted
               ELSE /\ cur'[t].res = Err(<<>>)
                    /\ queue' = queue
                    /\ writes' = writes
                    /\ ~writes[cur[t].id].admitted]_vars
    /\ [][\A w \in DOMAIN writes :
            (~writes[w].admitted /\ writes'[w].admitted)
            => \E t \in Threads :
                  /\ pc[t] \in {"new_put_locked", "start_child"}
                  /\ cur[t].id = w
                  /\ pc'[t] = "idle"
                  /\ cur'[t].res = OkUnit]_vars

\* a store has returned an error while the write of another store is queued
C35_Witness ==
    /\ \E t \in Threads : pc[t] = "idle" /\ cur[t].op = "store" /\ cur[t].res = Err(<<>>)
    /\ Len(writes) = 2
    /\ Len(queue) = 1
    /\ \E w \in DOMAIN writes : ~writes[w].admitted /\ Len(writes[w].context.text) > PipeCapacity

\* C36: ls of a path that begins with "/" gives what ls gives for the path
\* without it.
C36_LeadingSlash ==
    (pure.fn = "ls" /\ pure.arg # <<>> /\ Head(pure.arg) = RootDir)
    => pure.out = ls(hat, Tail(pure.arg))

\* the places <<p, k>> of the child lists that hold inode i
PlacesOf(i) == {c \in ChildNumbers : parent[c[1]][c[2]] = i}

\* C37: the inode table is a forest rooted at inode 1: every inode but the
\* root has a parent that is in the table and is a Parent or a ParentTop, is
\* found exactly once in the child lists, in the list of its parent, every
\* child-list entry is in the table, and no step removes an inode, gives it
\* another parent or takes it out of a child list.
C37_InodeForest ==
    /\ [](/\ \A i \in DOMAIN inodes \ {1} :
              LET p == inodes[i].parent
              IN  /\ p \in DOMAIN inodes
                  /\ p < i
                  /\ inodes[p].file_type.kind \in {"Parent", "ParentTop"}
                  /\ p \in DOMAIN parent
                  /\ Cardinality(PlacesOf(i)) = 1
                  /\ \A c \in PlacesOf(i) : c[1] = p
           /\ 1 \in DOMAIN inodes /\ inodes[1].parent = 0 /\ PlacesOf(1) = {}
           /\ \A c \in ChildNumbers : parent[c[1]][c[2]] \in DOMAIN inodes)
    /\ [][/\ \A i \in DOMAIN inodes :
               i \in DOMAIN inodes' /\ inodes'[i].parent = inodes[i].parent
           /\ \A p \in DOMAIN parent :
               /\ p \in DOMAIN parent'
               /\ Len(parent'[p]) >= Len(parent[p])
               /\ SubSeq(parent'[p], 1, Len(parent[p])) = parent[p]]_vars

\* the directory "d" of the snapshot has been listed: its file "g" is inode
\* 10, a child of inode 4, three directories below the root
C37_Witness ==
    /\ Len(inodes) = 10
    /\ inodes[10].name = "g" /\ inodes[10].parent = 4
    /\ inodes[4].name = "d" /\ inodes[4].parent = 3
    /\ parent[4] = <<10>>
    /\ inodes[5].file_type.kind = "FileTop"

\* where a thread is when it holds the queue mutex across steps, and where it
\* is about to take the cache mutex
QueuePcs == {"new_put_locked", "start_child"}
CachePcs == {"cache_get", "cache_put", "cache_delete"}

\* a thread inside a call, and the step it takes next, alone or once the
\* helper it feeds has read its input or gone away
InCall(t) == pc[t] \notin {"idle", "panicked"}
ThreadStep(t) == CallerStep(t) \/ ReaderStep(t) \/ HelperReads(t)

\* the queue mutex is owned exactly by a thread inside new_put, a thread
\* about to take the cache mutex does not own it, and every thread inside
\* a call can take a step or waits for the queue mutex whose owner can
LocksApart ==
    /\ \A t \in Threads : qlock = t <=> pc[t] \in QueuePcs
    /\ \A t \in Threads : pc[t] \in CachePcs => qlock # t
    /\ \A t \in Threads :
          InCall(t) =>
             \/ ENABLED ThreadStep(t)
             \/ qlock \in Threads \ {t} /\ ENABLED ThreadStep(qlock)

\* C38: no operation holds the queue mutex and the cache mutex together: the
\* queue mutex is owned exactly by a thread inside new_put, and a step that
\* takes the cache mutex is made by a thread that does not own it. No calls
\* deadlock: every thread inside a call can take a step, or waits for the
\* queue mutex whose owner can take a step.
C38_NoDeadlock ==
    /\ []LocksApart
    /\ [][read_cache' # read_cache =>
             \E t \in Threads : pc[t] \in CachePcs /\ pc'[t] # pc[t] /\ qlock # t]_vars

\* one thread is stalled feeding a helper inside new_put, owning the queue
\* mutex, a second waits for the mutex in flush or store, after a store
\* was admitted
C38_Witness ==
    /\ pc[1] = "start_child" /\ qlock = 1
    /\ pc[2] \in {"flush", "new_put"}
    /\ queue # <<>>

\* how many chunks the reader has pulled from its iterator
Pulled == Len(chunks) - Len(rd.rest.items)

\* what the fields of the reader hold before and at eof
ReaderShape ==
    /\ ~rd.eof =>
          /\ rd.buf = IF Pulled = 0 THEN <<>> ELSE chunks[Pulled]
          /\ rd.offset = Len(Concat(SubSeq(chunks, 1, Pulled - 1)))
    /\ rd.eof =>
          /\ rd.buf = <<>>
          /\ rd.rest.items = <<>>
          /\ rd.offset = Len(Concat(chunks))

\* C39: offset is the total length of the chunks pulled before the chunk held
\* in buf; at eof buf is empty and offset is the length of the file; eof
\* stays set and every read made at eof returns absent.
C39_ReaderInvariant ==
    /\ []ReaderShape
    /\ [][rd.eof => rd'.eof /\ rlog'.out = Absent]_vars

\* a file of three chunks has been read to its end by a first read, and a
\* second read, made at eof, came back absent
C39_Witness ==
    /\ Len(chunks) = 3 /\ Len(Concat(chunks)) >= 3
    /\ rd.eof /\ rd.offset = Len(Concat(chunks))
    /\ rlog.n = 2 /\ rlog.out = Absent

\* where the caller is inside store or flush, and inside retrieve, delete or
\* list
WritePcs == {"new_put", "new_put_locked", "start_child", "flush"}
ReadPcs == {"cache_get", "get", "cache_put", "cache_delete", "delete_cmd", "list_cmd"}

\* the write queue as the caller knows it, and how often each done callback
\* was invoked
QueueOf(q) == [i \in 1..Len(q) |-> q[i].context]
DoneCalls(ws) == [w \in DOMAIN ws |-> ws[w].done]

\* C40: a step that begins or belongs to store or flush leaves every
\* read-cache entry as it was; a step that begins or belongs to retrieve,
\* delete or list leaves the write queue as it was and invokes no done
\* callback.
C40_Frame ==
    [][/\ (pc[1] \in WritePcs \/ pc'[1] \in WritePcs) => read_cache' = read_cache
       /\ (pc[1] \in ReadPcs \/ pc'[1] \in ReadPcs) =>
             /\ QueueOf(queue') = QueueOf(queue)
             /\ DoneCalls(writes') = DoneCalls(writes)]_vars

\* a list has returned the names in the store while a write was queued and
\* the read cache held an entry
C40_Witness ==
    /\ pc[1] = "idle" /\ cur[1].op = "list" /\ cur[1].res.tag = "names"
    /\ cur[1].res.val # {}
    /\ queue # <<>>
    /\ DOMAIN read_cache # {}

====
